---- MODULE Spec2Model ----
(***************************************************************************)
(* GasTracker-AI: the fuel-log derivation (calculateMPG, the FuelStats     *)
(* view), the CSV interchange (exportToCSV, parseCSV) and the collection   *)
(* of App with its operations and its persistence under 'fuelLogs'.        *)
(*                                                                         *)
(* JavaScript numbers are modelled as exact rationals in lowest terms      *)
(* together with NaN, +Infinity and -Infinity; null is a value of its own. *)
(* Texts are sequences of one-character strings.                           *)
(***************************************************************************)
EXTENDS Integers, Sequences, FiniteSets, TLC

\* Largest number of records in a collection.
MaxLogs == 3

\* Largest number of records in an exported collection.
MaxExported == 2

\* Largest number of data lines in a picked CSV file.
MaxRows == 2

\* Number.prototype.toString prints the shortest decimal that reads back as
\* the same double; in the model a number is printed with at most this many
\* fraction digits.
FractionDigits == 3

----------------------------------------------------------------------------
(* JavaScript numbers *)

Abs(x) == IF x < 0 THEN -x ELSE x

Sgn(x) == IF x < 0 THEN -1 ELSE IF x > 0 THEN 1 ELSE 0

\* const x = v; followed by F(x): a value computed once and then named.
Bind(v, F(_)) == F(v)

RECURSIVE GCD(_, _)
GCD(a, b) == IF b = 0 THEN a ELSE GCD(b, a % b)

\* The finite number n/d (d > 0), in lowest terms.
Fin(n, d) ==
  LET g == GCD(Abs(n), d)
  IN  [k |-> "fin", n |-> n \div g, d |-> d \div g]

NaN == [k |-> "nan", n |-> 0, d |-> 0]

\* +Infinity (s = 1) and -Infinity (s = -1).
Inf(s) == [k |-> "inf", n |-> s, d |-> 0]

\* JavaScript's null.
Null == [k |-> "null", n |-> 0, d |-> 0]

\* JavaScript's undefined (an absent optional field).
Undefined == [k |-> "undefined", n |-> 0, d |-> 0]

IsFinite(x) == x.k = "fin"

IsNaN(x) == x.k = "nan"

\* a <= b on numbers: false as soon as one side is NaN.
JsLe(a, b) ==
  CASE a.k = "nan" \/ b.k = "nan" -> FALSE
    [] a.k = "inf" -> a.n = -1 \/ (b.k = "inf" /\ b.n = 1)
    [] b.k = "inf" -> b.n = 1
    [] OTHER       -> a.n * b.d <= b.n * a.d

\* a > b on numbers: false as soon as one side is NaN.
JsGt(a, b) ==
  CASE a.k = "nan" \/ b.k = "nan" -> FALSE
    [] OTHER -> ~JsLe(a, b)

JsAdd(a, b) ==
  CASE a.k = "nan" \/ b.k = "nan" -> NaN
    [] a.k = "inf" /\ b.k = "inf" -> IF a.n = b.n THEN a ELSE NaN
    [] a.k = "inf" -> a
    [] b.k = "inf" -> b
    [] OTHER       -> Fin(a.n * b.d + b.n * a.d, a.d * b.d)

JsNeg(a) ==
  CASE a.k = "fin" -> Fin(-a.n, a.d)
    [] a.k = "inf" -> Inf(-a.n)
    [] OTHER       -> a

JsSub(a, b) == JsAdd(a, JsNeg(b))

\* a / b: x/0 is an infinity of x's sign, 0/0 is NaN (the sign of zero is
\* not modelled: every zero is +0).
JsDiv(a, b) ==
  CASE a.k = "nan" \/ b.k = "nan" -> NaN
    [] a.k = "inf" /\ b.k = "inf" -> NaN
    [] a.k = "inf" -> Inf(a.n * (IF b.n < 0 THEN -1 ELSE 1))
    [] b.k = "inf" -> Fin(0, 1)
    [] b.n = 0     -> IF a.n = 0 THEN NaN ELSE Inf(Sgn(a.n))
    [] OTHER       -> Fin(a.n * b.d * Sgn(b.n), a.d * Abs(b.n))

\* ToBoolean of a number or null: 0, NaN, null and undefined are falsy.
Truthy(x) ==
  CASE x.k = "fin" -> x.n # 0
    [] x.k = "inf" -> TRUE
    [] OTHER       -> FALSE

\* parseFloat(x.toFixed(1)): the nearest multiple of 1/10, the larger one on
\* a tie, the sign handled apart; an infinity prints as "Infinity" and
\* parses back to itself.
ToFixed1(x) ==
  CASE x.k = "fin" ->
         LET m == (20 * Abs(x.n) + x.d) \div (2 * x.d)
         IN  Fin(Sgn(x.n) * m, 10)
    [] OTHER -> x

----------------------------------------------------------------------------
(* Instants and records *)

\* An instant of the year 2026: month, day of the month, second of the day
\* and millisecond (0 or 500: the clock of the model ticks in half seconds).
\* A FuelLog's date is the ISO string of such an instant.
Instant(mo, d, s, ms) == [mo |-> mo, d |-> d, s |-> s, ms |-> ms]

\* new Date(date).getTime(), counted in half seconds from the start of the
\* year (months counted as 31 days: only differences and their signs are
\* used).
GetTime(t) == (((t.mo * 31 + t.d) * 86400) + t.s) * 2 + (t.ms \div 500)

\* One fill-up (types.ts FuelLog).  location is a text, empty when absent;
\* latitude and longitude are numbers or Undefined.
FuelLog(id, date, odometer, gallons, pricePerGallon, totalCost, location, latitude, longitude) ==
  [id |-> id, date |-> date, odometer |-> odometer, gallons |-> gallons,
   pricePerGallon |-> pricePerGallon, totalCost |-> totalCost,
   location |-> location, latitude |-> latitude, longitude |-> longitude]

----------------------------------------------------------------------------
(* Derivation: calculateMPG and the FuelStats view *)

\* utils.ts calculateMPG with the guard current.odometer < previous.odometer.
CalculateMPGStrictGuard(current, previous) ==
  IF ~JsLe(previous.odometer, current.odometer)
  THEN Null
  ELSE JsDiv(JsSub(current.odometer, previous.odometer), current.gallons)

\* utils.ts calculateMPG.
CalculateMPG(current, previous) ==
  IF JsLe(current.odometer, previous.odometer)
  THEN Null
  ELSE JsDiv(JsSub(current.odometer, previous.odometer), current.gallons)

\* s with x placed after the last element that does not come after x in
\* time: one step of a stable ascending sort.
RECURSIVE InsertByDate(_, _)
InsertByDate(s, x) ==
  IF s = <<>> THEN <<x>>
  ELSE IF GetTime(s[Len(s)].date) - GetTime(x.date) <= 0
       THEN Append(s, x)
       ELSE Append(InsertByDate(SubSeq(s, 1, Len(s) - 1), x), s[Len(s)])

\* FuelStats sortedLogs: [...logs].sort by date ascending (the sort is stable).
RECURSIVE SortedLogs(_)
SortedLogs(ls) ==
  IF ls = <<>> THEN <<>>
  ELSE InsertByDate(SortedLogs(SubSeq(ls, 1, Len(ls) - 1)), ls[Len(ls)])

\* One element of chartData before the filter: the record's mpg against its
\* predecessor, rounded to one decimal, or null.
ChartPoint(sorted, index) ==
  LET log == sorted[index]
      mpg == IF index > 1 THEN CalculateMPG(log, sorted[index - 1]) ELSE Null
  IN  [mpg   |-> IF Truthy(mpg) THEN ToFixed1(mpg) ELSE Null,
       cost  |-> log.totalCost,
       price |-> log.pricePerGallon]

RECURSIVE ChartPointsFrom(_, _)
ChartPointsFrom(sorted, index) ==
  IF index > Len(sorted) THEN <<>>
  ELSE LET p == ChartPoint(sorted, index)
       IN  (IF p.mpg # Null THEN <<p>> ELSE <<>>) \o ChartPointsFrom(sorted, index + 1)

\* FuelStats chartData: the points whose mpg is not null.
ChartData(sorted) == ChartPointsFrom(sorted, 1)

RECURSIVE SumMpg(_)
SumMpg(cd) ==
  IF cd = <<>> THEN Fin(0, 1)
  ELSE JsAdd(SumMpg(SubSeq(cd, 1, Len(cd) - 1)),
             IF Truthy(cd[Len(cd)].mpg) THEN cd[Len(cd)].mpg ELSE Fin(0, 1))

\* FuelStats avgMpg.
AvgMpg(cd) == JsDiv(SumMpg(cd), Fin(Len(cd), 1))

RECURSIVE SumTotalCost(_)
SumTotalCost(ls) ==
  IF ls = <<>> THEN Fin(0, 1)
  ELSE JsAdd(SumTotalCost(SubSeq(ls, 1, Len(ls) - 1)), ls[Len(ls)].totalCost)

\* FuelStats costPerMile without the totalMiles > 0 guard.
CostPerMileUnguarded(sorted) ==
  JsDiv(SumTotalCost(sorted),
        JsSub(sorted[Len(sorted)].odometer, sorted[1].odometer))

\* FuelStats costPerMile: "max" is the last record by date, "min" the first.
CostPerMile(sorted) ==
  LET minOdometer == sorted[1].odometer
      maxOdometer == sorted[Len(sorted)].odometer
      totalMiles  == JsSub(maxOdometer, minOdometer)
      totalCost   == SumTotalCost(sorted)
  IN  IF JsGt(totalMiles, Fin(0, 1)) THEN JsDiv(totalCost, totalMiles) ELSE Fin(0, 1)

\* What the FuelStats component renders: with fewer than two records only a
\* message, and no statistic at all.
FuelStats(ls) ==
  LET sorted == SortedLogs(ls)
      cd     == ChartData(sorted)
  IN  IF Len(ls) < 2
      THEN [shown |-> FALSE, chartData |-> cd,
            avgMpg |-> Undefined, costPerMile |-> Undefined]
      ELSE [shown |-> TRUE, chartData |-> cd,
            avgMpg |-> AvgMpg(cd), costPerMile |-> CostPerMile(sorted)]

\* FuelStats chartData: the record against which the record with this id is
\* measured, the previous element of the ascending sort (0: none).
StatsPredecessor(ls, id) ==
  Bind(SortedLogs(ls), LAMBDA sorted :
    Bind(CHOOSE k \in 1..Len(sorted) : sorted[k].id = id, LAMBDA index :
      IF index > 1 THEN sorted[index - 1].id ELSE 0))

\* FuelHistory's comparator: by date descending, then by odometer
\* descending; a positive value puts a after b.
HistoryCompare(a, b) ==
  IF GetTime(a.date) # GetTime(b.date)
  THEN Fin(GetTime(b.date) - GetTime(a.date), 1)
  ELSE JsSub(b.odometer, a.odometer)

\* One step of the stable sort with FuelHistory's comparator.
RECURSIVE InsertByHistoryCompare(_, _)
InsertByHistoryCompare(s, x) ==
  IF s = <<>> THEN <<x>>
  ELSE IF JsGt(HistoryCompare(s[Len(s)], x), Fin(0, 1))
       THEN Append(InsertByHistoryCompare(SubSeq(s, 1, Len(s) - 1), x), s[Len(s)])
       ELSE Append(s, x)

\* FuelHistory sortedLogs.
RECURSIVE HistorySortedLogs(_)
HistorySortedLogs(ls) ==
  IF ls = <<>> THEN <<>>
  ELSE InsertByHistoryCompare(HistorySortedLogs(SubSeq(ls, 1, Len(ls) - 1)),
                              ls[Len(ls)])

\* One card of the history list: the record is measured against the next
\* element of the descending sort (previous 0: there is none).
HistoryRow(sorted, index) ==
  [id       |-> sorted[index].id,
   previous |-> IF index < Len(sorted) THEN sorted[index + 1].id ELSE 0,
   mpg      |-> IF index < Len(sorted)
                THEN CalculateMPG(sorted[index], sorted[index + 1])
                ELSE Null]

\* What the FuelHistory component renders: one card per record.
FuelHistory(ls) ==
  Bind(HistorySortedLogs(ls), LAMBDA sorted :
    [index \in 1..Len(sorted) |-> HistoryRow(sorted, index)])

----------------------------------------------------------------------------
(* Texts: sequences of one-character strings *)

Q == "\""

Comma == ","

Digits == <<"0", "1", "2", "3", "4", "5", "6", "7", "8", "9">>

IsDigit(c) == \E i \in 1..10 : Digits[i] = c

DigitVal(c) == (CHOOSE i \in 1..10 : Digits[i] = c) - 1

\* White space (\s of a regular expression, String.prototype.trim).
IsSpace(c) == c \in {" ", "\t", "\r", "\n"}

RECURSIVE Pow10(_)
Pow10(k) == IF k = 0 THEN 1 ELSE 10 * Pow10(k - 1)

RECURSIVE NatToChars(_)
NatToChars(n) ==
  IF n < 10 THEN <<Digits[n + 1]>>
  ELSE NatToChars(n \div 10) \o <<Digits[(n % 10) + 1]>>

\* The fraction digits of m / 10^k (0 <= m < 10^k), trailing zeros dropped.
RECURSIVE FractionChars(_, _)
FractionChars(m, k) ==
  IF m = 0 THEN <<>>
  ELSE <<Digits[(m \div Pow10(k - 1)) + 1]>> \o FractionChars(m % Pow10(k - 1), k - 1)

\* The decimal text of m / scale (m >= 0), scale a power of ten of digits
\* fraction digits.
DecimalChars(m, scale, digits) ==
  NatToChars(m \div scale)
    \o (IF m % scale = 0 THEN <<>>
        ELSE <<".">> \o FractionChars(m % scale, digits))

\* String(x) of a number, as Array.prototype.join applies it; null and
\* undefined elements join as the empty text.
NumberToString(x) ==
  CASE x.k = "nan" -> <<"N", "a", "N">>
    [] x.k = "inf" -> (IF x.n < 0 THEN <<"-">> ELSE <<>>)
                        \o <<"I", "n", "f", "i", "n", "i", "t", "y">>
    [] x.k = "fin" ->
         Bind((2 * Abs(x.n) * Pow10(FractionDigits) + x.d) \div (2 * x.d), LAMBDA m :
           (IF x.n < 0 /\ m > 0 THEN <<"-">> ELSE <<>>)
             \o DecimalChars(m, Pow10(FractionDigits), FractionDigits))
    [] OTHER -> <<>>

RECURSIVE TrimStart(_)
TrimStart(cs) ==
  IF cs # <<>> /\ IsSpace(cs[1]) THEN TrimStart(Tail(cs)) ELSE cs

RECURSIVE TrimEnd(_)
TrimEnd(cs) ==
  IF cs # <<>> /\ IsSpace(cs[Len(cs)]) THEN TrimEnd(SubSeq(cs, 1, Len(cs) - 1)) ELSE cs

\* String.prototype.trim.
Trim(cs) == TrimEnd(TrimStart(cs))

\* The longest prefix of cs made of digits.
RECURSIVE DigitPrefix(_)
DigitPrefix(cs) ==
  IF cs # <<>> /\ IsDigit(cs[1]) THEN <<cs[1]>> \o DigitPrefix(Tail(cs)) ELSE <<>>

RECURSIVE DigitsValue(_)
DigitsValue(ds) ==
  IF ds = <<>> THEN 0
  ELSE 10 * DigitsValue(SubSeq(ds, 1, Len(ds) - 1)) + DigitVal(ds[Len(ds)])

StartsWith(cs, p) == Len(cs) >= Len(p) /\ SubSeq(cs, 1, Len(p)) = p

\* The number sign * int.frac of a decimal literal's digits.
DecimalValue(sign, int, frac) ==
  Fin(sign * (DigitsValue(int) * Pow10(Len(frac)) + DigitsValue(frac)),
      Pow10(Len(frac)))

\* The digits after the point of a literal whose integer digits are read.
FractionPart(v) == IF v # <<>> /\ v[1] = "." THEN DigitPrefix(Tail(v)) ELSE <<>>

\* parseFloat of an unsigned text u with the sign read before it.
ParseUnsigned(u, sign) ==
  Bind(DigitPrefix(u), LAMBDA int :
    Bind(FractionPart(SubSeq(u, Len(int) + 1, Len(u))), LAMBDA frac :
      IF int = <<>> /\ frac = <<>>
      THEN IF StartsWith(u, <<"I", "n", "f", "i", "n", "i", "t", "y">>)
           THEN Inf(sign) ELSE NaN
      ELSE DecimalValue(sign, int, frac)))

\* parseFloat: leading white space skipped, then the longest prefix that is
\* a decimal literal (sign, digits, fraction), whatever follows; NaN when
\* there is none.  An exponent part is not read: no text of the model has one.
ParseFloat(cs) ==
  Bind(TrimStart(cs), LAMBDA t :
    IF t # <<>> /\ t[1] \in {"-", "+"}
    THEN ParseUnsigned(Tail(t), IF t[1] = "-" THEN -1 ELSE 1)
    ELSE ParseUnsigned(t, 1))

\* The texts of xs joined by the text sep (Array.prototype.join).
RECURSIVE Join(_, _)
Join(xs, sep) ==
  IF xs = <<>> THEN <<>>
  ELSE IF Len(xs) = 1 THEN xs[1]
  ELSE xs[1] \o sep \o Join(Tail(xs), sep)

\* The position of the k-th element of the set of positions ps, 0 for
\* k = 0 and last + 1 past the end.
NthPosition(ps, k, last) ==
  IF k = 0 THEN 0
  ELSE IF k > Cardinality(ps) THEN last + 1
  ELSE CHOOSE i \in ps : Cardinality({j \in ps : j < i}) = k - 1

\* cs from from to to, without a "\r" that ends it before a "\n".
LineOf(cs, from, to) ==
  IF to <= Len(cs) - 1 /\ to >= from /\ cs[to] = "\r"
  THEN SubSeq(cs, from, to - 1)
  ELSE SubSeq(cs, from, to)

\* csvText.split(/\r?\n/): the lines of a text; a line break is "\n" or
\* "\r\n".  Line k runs from after the (k-1)-th "\n" to before the k-th.
SplitLines(cs) ==
  Bind({i \in 1..Len(cs) : cs[i] = "\n"}, LAMBDA breaks :
    [k \in 1..(Cardinality(breaks) + 1) |->
       LineOf(cs, NthPosition(breaks, k - 1, Len(cs)) + 1,
                  NthPosition(breaks, k, Len(cs)) - 1)])

----------------------------------------------------------------------------
(* Dates as texts *)

Locales == {"en-US", "en-GB"}

Year == <<"2", "0", "2", "6">>

\* n in two digits at least.
TwoDigits(n) == (IF n < 10 THEN <<"0">> ELSE <<>>) \o NatToChars(n)

\* new Date(date).toLocaleString() in the default locale: en-US prints
\* month/day/year, en-GB day/month/year, both then ", " and the time of the
\* day to the second (the model prints it as the second of the day); the
\* milliseconds are not printed.
ToLocaleString(t, loc) ==
  IF loc = "en-US"
  THEN NatToChars(t.mo) \o <<"/">> \o NatToChars(t.d) \o <<"/">> \o Year
         \o <<",", " ">> \o NatToChars(t.s)
  ELSE TwoDigits(t.d) \o <<"/">> \o TwoDigits(t.mo) \o <<"/">> \o Year
         \o <<",", " ">> \o NatToChars(t.s)

\* The time value of an invalid Date (NaN).
InvalidDate == [mo |-> 0, d |-> 0, s |-> 0, ms |-> 0]

\* The digits of cs after the text sep, when cs starts with sep.
DigitsAfter(cs, sep) ==
  IF StartsWith(cs, sep) THEN DigitPrefix(SubSeq(cs, Len(sep) + 1, Len(cs))) ELSE <<>>

\* cs without its first n characters.
Drop(cs, n) == SubSeq(cs, n + 1, Len(cs))

\* new Date(text): the engine's reading of a numeric date, first number the
\* month, second the day, third the year, then ", " and the time.  A month
\* outside 1..12, a day outside 1..31 or any other text is an invalid Date.
DateParse(cs) ==
  Bind(DigitPrefix(cs), LAMBDA n1 :
  Bind(Drop(cs, Len(n1)), LAMBDA r1 :
  Bind(DigitsAfter(r1, <<"/">>), LAMBDA n2 :
  Bind(Drop(r1, Len(n2) + 1), LAMBDA r2 :
  Bind(DigitsAfter(r2, <<"/">>), LAMBDA n3 :
  Bind(Drop(r2, Len(n3) + 1), LAMBDA r3 :
  Bind(DigitsAfter(r3, <<",", " ">>), LAMBDA n4 :
    IF /\ n1 # <<>> /\ n2 # <<>> /\ n3 = Year /\ n4 # <<>>
       /\ Drop(r3, Len(n4) + 2) = <<>>
       /\ DigitsValue(n1) \in 1..12
       /\ DigitsValue(n2) \in 1..31
       /\ DigitsValue(n4) < 86400
    THEN Instant(DigitsValue(n1), DigitsValue(n2), DigitsValue(n4), 0)
    ELSE InvalidDate)))))))

\* Date.prototype.toISOString: a RangeError on an invalid Date, otherwise
\* the ISO string, which a FuelLog's date field holds (modelled as the
\* instant itself).
ToISOString(t) ==
  IF t = InvalidDate
  THEN [threw |-> TRUE, value |-> InvalidDate]
  ELSE [threw |-> FALSE, value |-> t]

----------------------------------------------------------------------------
(* exportToCSV *)

Headers ==
  << <<"D", "a", "t", "e">>,
     <<"O", "d", "o", "m", "e", "t", "e", "r">>,
     <<"G", "a", "l", "l", "o", "n", "s">>,
     <<"P", "r", "i", "c", "e", "/", "G", "a", "l">>,
     <<"T", "o", "t", "a", "l", " ", "C", "o", "s", "t">>,
     <<"L", "o", "c", "a", "t", "i", "o", "n">>,
     <<"L", "a", "t", "i", "t", "u", "d", "e">>,
     <<"L", "o", "n", "g", "i", "t", "u", "d", "e">> >>

\* x || '' on an optional coordinate: the empty text for undefined, 0 and NaN.
NumberOrEmpty(x) == IF Truthy(x) THEN NumberToString(x) ELSE <<>>

\* One row of exportToCSV.
ExportRow(log, loc) ==
  Join(<< <<Q>> \o ToLocaleString(log.date, loc) \o <<Q>>,
          NumberToString(log.odometer),
          NumberToString(log.gallons),
          NumberToString(log.pricePerGallon),
          NumberToString(log.totalCost),
          <<Q>> \o log.location \o <<Q>>,
          NumberOrEmpty(log.latitude),
          NumberOrEmpty(log.longitude) >>, <<Comma>>)

\* csvContent with the rows of the newest record first.
CsvContentNewestFirst(ls, loc) ==
  Join(<<Join(Headers, <<Comma>>)>>
         \o [i \in 1..Len(ls) |-> ExportRow(ls[Len(ls) + 1 - i], loc)],
       <<"\n">>)

\* exportToCSV csvContent (for a non-empty collection).
CsvContent(ls, loc) ==
  Join(<<Join(Headers, <<Comma>>)>> \o [i \in 1..Len(ls) |-> ExportRow(ls[i], loc)],
       <<"\n">>)

----------------------------------------------------------------------------
(* parseCSV *)

\* The lookahead (?=\s*,|\s*$) at position p of line.
LookAhead(line, p) ==
  \E q \in p..(Len(line) + 1) :
    /\ \A r \in p..(q - 1) : IsSpace(line[r])
    /\ q = Len(line) + 1 \/ line[q] = Comma

\* The smallest and the largest element of a non-empty set of positions.
MinOf(ps) == CHOOSE j \in ps : \A j2 \in ps : j <= j2

MaxOf(ps) == CHOOSE j \in ps : \A j2 \in ps : j >= j2

\* The end of the match of ".*?" at position i, or 0: the nearest closing
\* quote that the lookahead accepts.
QuotedEnd(line, i) ==
  IF line[i] # Q THEN 0
  ELSE Bind({j \in (i + 1)..Len(line) : line[j] = Q /\ LookAhead(line, j + 1)},
            LAMBDA ends : IF ends = {} THEN 0 ELSE MinOf(ends))

\* The end of the match of [^",]+ at position i, or 0: the longest run of
\* characters other than quote and comma that the lookahead accepts.
BareEnd(line, i) ==
  Bind({j \in i..Len(line) :
          /\ \A r \in i..j : line[r] \notin {Q, Comma}
          /\ LookAhead(line, j + 1)},
       LAMBDA ends : IF ends = {} THEN 0 ELSE MaxOf(ends))

\* The end of the match of the pattern at position i, or 0: the first
\* alternative that matches.
MatchEnd(line, i) ==
  Bind(QuotedEnd(line, i), LAMBDA e : IF e # 0 THEN e ELSE BareEnd(line, i))

\* line.match(pattern) from position i on: the matches from left to right,
\* each search starting where the previous match ended.
RECURSIVE MatchesFrom(_, _)
MatchesFrom(line, i) ==
  IF i > Len(line) THEN <<>>
  ELSE Bind(MatchEnd(line, i), LAMBDA e :
         IF e = 0 THEN MatchesFrom(line, i + 1)
         ELSE <<SubSeq(line, i, e)>> \o MatchesFrom(line, e + 1))

\* v.replace(/^"|"$/g, '').trim()
StripQuotes(v) ==
  Bind(IF v # <<>> /\ v[1] = Q THEN Tail(v) ELSE v, LAMBDA a :
    Trim(IF a # <<>> /\ a[Len(a)] = Q THEN SubSeq(a, 1, Len(a) - 1) ELSE a))

\* parseCSV splitCSVLine.
SplitCSVLine(line) ==
  Bind(MatchesFrom(line, 1), LAMBDA ms : [i \in 1..Len(ms) |-> StripQuotes(ms[i])])

\* cols[i] (0-based, as in the source) is there and is not the empty text.
HasCol(cols, i) == i + 1 <= Len(cols) /\ cols[i + 1] # <<>>

\* cols[i] ? parseFloat(cols[i]) : undefined
OptionalFloat(cols, i) == IF HasCol(cols, i) THEN ParseFloat(cols[i + 1]) ELSE Undefined

\* The record parseCSV pushes for the columns cols.
PushedLog(cols, date, odometer, gallons, pricePerGallon, totalCost) ==
  [date |-> date, odometer |-> odometer, gallons |-> gallons,
   pricePerGallon |-> IF IsNaN(pricePerGallon)
                      THEN JsDiv(totalCost, gallons)
                      ELSE pricePerGallon,
   totalCost |-> totalCost,
   location |-> IF HasCol(cols, 5) THEN cols[6] ELSE <<>>,
   latitude |-> OptionalFloat(cols, 6),
   longitude |-> OptionalFloat(cols, 7)]

\* new Date(dateStr).toISOString() and the fallback of the source, which
\* compares the ISO string with 'Invalid Date': toISOString never returns
\* that text, it throws on an invalid Date, so now is never taken.
RowDate(dateStr, now) ==
  Bind(ToISOString(DateParse(dateStr)), LAMBDA iso :
    IF iso.threw THEN iso
    ELSE [threw |-> FALSE, value |-> IF FALSE THEN now ELSE iso.value])

\* The loop body of parseCSV on the columns of a line of five fields at
\* least: "skip" (continue), "throw" (an exception leaves parseCSV) or "push".
ParseCols(cols, now) ==
  Bind(ParseFloat(cols[2]), LAMBDA odometer :
  Bind(ParseFloat(cols[3]), LAMBDA gallons :
  Bind(ParseFloat(cols[5]), LAMBDA totalCost :
    IF IsNaN(odometer) \/ IsNaN(gallons) \/ IsNaN(totalCost) THEN [kind |-> "skip"]
    ELSE Bind(RowDate(cols[1], now), LAMBDA date :
           IF date.threw THEN [kind |-> "throw"]
           ELSE [kind |-> "push",
                 log  |-> PushedLog(cols, date.value, odometer, gallons,
                                    ParseFloat(cols[4]), totalCost)]))))

\* One pass of the loop body of parseCSV on lines[i].
ParseRow(rawLine, now) ==
  Bind(Trim(rawLine), LAMBDA line :
    IF line = <<>> THEN [kind |-> "skip"]
    ELSE Bind(SplitCSVLine(line), LAMBDA cols :
           IF Len(cols) < 5 THEN [kind |-> "skip"] ELSE ParseCols(cols, now)))

\* The loop of parseCSV from line i on (1-based; the header is line 1).
RECURSIVE ParseRowsFrom(_, _, _)
ParseRowsFrom(lines, i, now) ==
  IF i > Len(lines) THEN [threw |-> FALSE, records |-> <<>>]
  ELSE Bind(ParseRow(lines[i], now), LAMBDA r :
         IF r.kind = "throw" THEN [threw |-> TRUE, records |-> <<>>]
         ELSE Bind(ParseRowsFrom(lines, i + 1, now), LAMBDA rest :
                IF rest.threw \/ r.kind = "skip" THEN rest
                ELSE [threw |-> FALSE, records |-> <<r.log>> \o rest.records]))

\* parseCSV with its loop started at the first line.
ParseCSVFromFirstLine(text, now) ==
  Bind(SplitLines(text), LAMBDA lines :
    IF Len(lines) < 2 THEN [threw |-> FALSE, records |-> <<>>]
    ELSE ParseRowsFrom(lines, 1, now))

\* parseCSV(csvText) at wall-clock time now: the records, or an exception.
ParseCSV(text, now) ==
  Bind(SplitLines(text), LAMBDA lines :
    IF Len(lines) < 2 THEN [threw |-> FALSE, records |-> <<>>]
    ELSE ParseRowsFrom(lines, 2, now))

----------------------------------------------------------------------------
(* State *)

VARIABLES
  logs,       \* App: the in-memory collection of FuelLog records
  mpgCall,    \* the last call of calculateMPG: its arguments and its result
  statsView,  \* what FuelStats rendered last
  locale,     \* the browser's default locale, used by toLocaleString
  csvText,    \* the CSV text at hand: exported, or picked for import
  parsed,     \* the outcome of the last parseCSV call
  phase,      \* App: "off" before the first render, "running" after it
  stored,     \* localStorage: the item under the key 'fuelLogs'
  atStart,    \* the item under 'fuelLogs' when the application started
  effects,    \* the effects of the last render still to run, in order
  queued,     \* a setLogs(value) called from an effect, not yet rendered
  lastOp,     \* the last operation of the user on the collection
  issued,     \* how many ids exist: crypto.randomUUID() gives a new one
  historyView,\* what FuelHistory rendered last
  activeTab,  \* App: the tab shown
  form,       \* FuelEntry: the state of the entry form
  scan,       \* FuelEntry.handleScan: the scan in progress and its position
  access      \* App: the API key gate, the key checks in flight, the key sources

vars == <<logs, mpgCall, statsView, locale, csvText, parsed,
          phase, stored, atStart, effects, queued, lastOp, issued,
          historyView, activeTab, form, scan, access>>

uiVars == <<historyView, activeTab, form, scan, access>>

appVars == <<phase, stored, atStart, effects, queued, lastOp, issued>>

NoCall == [called |-> FALSE]

NoView == [rendered |-> FALSE]

NoText == [origin |-> "none", text |-> <<>>]

NoParse == [called |-> FALSE]

\* localStorage.getItem('fuelLogs') === null
NoItem == [kind |-> "null"]

NoUpdate == [pending |-> FALSE]

NoOp == [kind |-> "none"]

\* The entry form is not mounted, no scan runs, the key gate is not modelled.
NoForm == [mounted |-> FALSE]

NoScan == [pc |-> "none"]

NoAccess == [pc |-> "none"]

\* The views and the entry form are not in use; App starts on the entry tab
\* (useState<Tab>(Tab.ENTRY)).
UiOff ==
  /\ historyView = NoView
  /\ activeTab = "ENTRY"
  /\ form = NoForm
  /\ scan = NoScan
  /\ access = NoAccess

\* The application is not started: the specifications of the derivation
\* and of the CSV codec work on a collection at hand.
AppOff ==
  /\ phase = "off"
  /\ stored = NoItem
  /\ atStart = NoItem
  /\ effects = <<>>
  /\ queued = NoUpdate
  /\ lastOp = NoOp
  /\ issued = 0

\* All sequences over S of length at most n.
BoundedSeq(S, n) == UNION {[1..m -> S] : m \in 0..n}

\* The records of ls with ids 1, 2, ... in order (ids are unique).
WithIds(ls) == [i \in 1..Len(ls) |-> [ls[i] EXCEPT !.id = i]]

----------------------------------------------------------------------------
(* The derivation engine on a stored collection *)

StatsDates == {Instant(11, 5, 0, 0), Instant(11, 25, 0, 0)}

StatsOdometers == {Fin(100, 1), Fin(101, 1), Fin(104, 1)}

StatsGallons == {Fin(0, 1), Fin(3, 1)}

StatsLogs ==
  {FuelLog(0, t, o, g, Fin(7, 2), Fin(21, 2), <<>>, Undefined, Undefined) :
     t \in StatsDates, o \in StatsOdometers, g \in StatsGallons}

Init ==
  /\ AppOff
  /\ UiOff
  /\ logs \in {WithIds(ls) : ls \in BoundedSeq(StatsLogs, MaxLogs)}
  /\ mpgCall = NoCall
  /\ statsView = NoView
  /\ locale = "en-US"
  /\ csvText = NoText
  /\ parsed = NoParse

\* A view calls calculateMPG(current, previous) on two records.
CallCalculateMPG ==
  /\ mpgCall = NoCall /\ statsView = NoView
  /\ \E i \in 1..Len(logs), j \in 1..Len(logs) :
       mpgCall' = [called |-> TRUE, current |-> logs[i], previous |-> logs[j],
                   result |-> CalculateMPG(logs[i], logs[j])]
  /\ UNCHANGED <<logs, statsView, locale, uiVars, csvText, parsed>>
  /\ UNCHANGED appVars

\* The stats tab renders FuelStats on the collection.
RenderStats ==
  /\ mpgCall = NoCall /\ statsView = NoView
  /\ statsView' = [rendered |-> TRUE, logs |-> logs, out |-> FuelStats(logs)]
  /\ UNCHANGED <<logs, mpgCall, locale, uiVars, csvText, parsed>>
  /\ UNCHANGED appVars

\* The history tab renders FuelHistory on the collection.
RenderHistory ==
  /\ mpgCall = NoCall /\ historyView = NoView
  /\ historyView' = [rendered |-> TRUE, logs |-> logs, rows |-> FuelHistory(logs)]
  /\ UNCHANGED <<logs, mpgCall, statsView, locale, csvText, parsed,
                 activeTab, form, scan, access>>
  /\ UNCHANGED appVars

Next == CallCalculateMPG \/ RenderStats \/ RenderHistory

Spec == Init /\ [][Next]_vars

----------------------------------------------------------------------------
(* Export of the collection, then import of the exported file *)

Sunoco == <<"S", "u", "n", "o", "c", "o">>

CsvDates == {Instant(11, 5, 7, 500), Instant(11, 25, 7, 0)}

\* odometer, gallons, pricePerGallon, totalCost of a fill-up.
CsvReadings ==
  { <<Fin(120, 1), Fin(25, 2), Fin(84, 25), Fin(42, 1)>>,
    <<Fin(45000, 1), Fin(3, 1), Fin(1, 3), Fin(1, 1)>> }

\* location, latitude, longitude of a fill-up.
CsvPlaces ==
  { <<Sunoco, Fin(421, 10), Fin(-71, 1)>>,
    <<<<>>, Undefined, Undefined>>,
    <<<<>>, Fin(0, 1), Fin(-71, 1)>> }

CsvLogs ==
  {FuelLog(0, t, r[1], r[2], r[3], r[4], pl[1], pl[2], pl[3]) :
     t \in CsvDates, r \in CsvReadings, pl \in CsvPlaces}

\* new Date() when parseCSV runs.
NowInstants == {Instant(12, 1, 0, 0)}

InitRoundTrip ==
  /\ UiOff
  /\ AppOff
  /\ logs \in {WithIds(ls) : ls \in BoundedSeq(CsvLogs, MaxExported)}
  /\ mpgCall = NoCall
  /\ statsView = NoView
  /\ locale \in Locales
  /\ csvText = NoText
  /\ parsed = NoParse

\* The CSV button of the history view: exportToCSV(logs) downloads the text;
\* it returns at once, with nothing downloaded, for an empty collection.
ExportToCSV ==
  /\ csvText = NoText
  /\ csvText' = IF Len(logs) = 0
                THEN [origin |-> "noDownload", text |-> <<>>]
                ELSE [origin |-> "export", text |-> CsvContent(logs, locale)]
  /\ UNCHANGED <<logs, mpgCall, statsView, locale, uiVars, parsed>>
  /\ UNCHANGED appVars

\* The import button: the picked file's text goes through parseCSV.
ParseCsvText ==
  /\ csvText.origin \in {"export", "file"}
  /\ parsed = NoParse
  /\ \E now \in NowInstants :
       parsed' = [called |-> TRUE, now |-> now, result |-> ParseCSV(csvText.text, now)]
  /\ UNCHANGED <<logs, mpgCall, statsView, locale, uiVars, csvText>>
  /\ UNCHANGED appVars

NextRoundTrip == ExportToCSV \/ ParseCsvText

SpecRoundTrip == InitRoundTrip /\ [][NextRoundTrip]_vars

----------------------------------------------------------------------------
(* Import of a picked CSV file *)

DateGood == <<Q, "1", "1", "/", "5", "/", "2", "0", "2", "6", ",", " ", "7", Q>>

DateBad == <<Q, "n", "/", "a", Q>>

Abc == <<"a", "b", "c">>

\* The fields after Total Cost: none, location with both coordinates,
\* empty location with the longitude only.
ImportTails ==
  { <<>>,
    << <<Q>> \o Sunoco \o <<Q>>, <<"4", "2", ".", "1">>, <<"-", "7", "1">> >>,
    << <<Q, Q>>, <<>>, <<"-", "7", "1">> >> }

\* A line of the fields date, odometer, gallons, price, total cost and tail.
ImportLine(date, odometer, price, tail) ==
  Join(<<date, odometer, <<"1", "2", ".", "5">>, price, <<"4", "2">>>> \o tail, <<Comma>>)

\* The data lines a picked file is made of: well-formed rows, rows with an
\* empty or non-numeric price, a row with a bad date, a row with a
\* non-numeric odometer, a row of four fields, an empty line.
ImportLines ==
  {ImportLine(DateGood, <<"1", "2", "0">>, <<"3", ".", "3", "6">>, tl) : tl \in ImportTails}
    \cup {ImportLine(DateGood, <<"1", "3", "0">>, <<>>, tl) : tl \in ImportTails}
    \cup { ImportLine(DateGood, <<"1", "4", "0">>, Abc, <<>>),
           ImportLine(DateBad, <<"1", "5", "0">>, <<"3", ".", "3", "6">>, <<>>),
           ImportLine(DateGood, Abc, <<"3", ".", "3", "6">>, <<>>),
           Join(<<DateGood, <<"1", "6", "0">>, <<"1", "2", ".", "5">>, <<"3", ".", "3", "6">>>>, <<Comma>>),
           <<>> }

\* The first line of a picked file: the export's header, or a data row.
FirstLines ==
  { Join(Headers, <<Comma>>),
    ImportLine(DateGood, <<"1", "1", "0">>, <<"3", ".", "3", "6">>, <<>>) }

\* The picked files: the empty file, and a first line followed by data lines.
FileTexts ==
  {<<>>} \cup
  {Join(<<first>> \o rows, <<"\n">>) :
     first \in FirstLines, rows \in BoundedSeq(ImportLines, MaxRows)}

InitImport ==
  /\ UiOff
  /\ AppOff
  /\ logs = <<>>
  /\ mpgCall = NoCall
  /\ statsView = NoView
  /\ locale = "en-US"
  /\ csvText = NoText
  /\ parsed = NoParse

\* handleFileChange: the user picks a file, whose text is read.
PickFile ==
  /\ csvText = NoText
  /\ \E text \in FileTexts : csvText' = [origin |-> "file", text |-> text]
  /\ UNCHANGED <<logs, mpgCall, statsView, locale, uiVars, parsed>>
  /\ UNCHANGED appVars

NextImport == PickFile \/ ParseCsvText

SpecImport == InitImport /\ [][NextImport]_vars

----------------------------------------------------------------------------
(* The application: the collection, its operations and its persistence *)

\* Largest number of records stored when the application starts.
MaxStored == 2

\* Largest number of ids that exist in a run.
MaxIds == 3

\* JSON.stringify of a number: NaN and the infinities are written as null.
JsonNumber(x) == IF x.k \in {"nan", "inf"} THEN Null ELSE x

\* JSON.stringify of a record; a property whose value is undefined is left
\* out, and reads back as undefined.
JsonRecord(l) ==
  [l EXCEPT !.odometer = JsonNumber(@), !.gallons = JsonNumber(@),
            !.pricePerGallon = JsonNumber(@), !.totalCost = JsonNumber(@),
            !.latitude = JsonNumber(@), !.longitude = JsonNumber(@)]

\* A serialization that holds the newest record only.
StringifyNewest(ls) ==
  [kind |-> "json",
   value |-> IF ls = <<>> THEN <<>> ELSE <<JsonRecord(ls[Len(ls)])>>]

\* JSON.stringify(logs): the item written under 'fuelLogs'.
Stringify(ls) ==
  [kind |-> "json", value |-> [i \in 1..Len(ls) |-> JsonRecord(ls[i])]]

\* saved ? JSON.parse(saved) : [] with its catch: the collection read from
\* the item, empty when there is no item or when it is not JSON.
SavedLogs(item) == IF item.kind = "json" THEN item.value ELSE <<>>

\* An id that repeats after a delete: the position of the new record.
NewIdFromLength(ls, n) == Len(ls) + 1

\* crypto.randomUUID(): an id no record has had, the n ids before it being
\* 1..n.
NewId(ls, n) == n + 1

\* updateLog that replaces the record at the position the id names.
UpdatedLogsByPosition(prev, updatedLog) ==
  [i \in 1..Len(prev) |-> IF i = updatedLog.id THEN updatedLog ELSE prev[i]]

\* prev.map(l => l.id === updatedLog.id ? updatedLog : l)
UpdatedLogs(prev, updatedLog) ==
  [i \in 1..Len(prev) |-> IF prev[i].id = updatedLog.id THEN updatedLog ELSE prev[i]]

\* deleteLog that removes the record at the position the id names.
RECURSIVE RemainingLogsByPosition(_, _)
RemainingLogsByPosition(prev, id) ==
  IF prev = <<>> THEN <<>>
  ELSE IF id = 1 THEN Tail(prev)
  ELSE <<prev[1]>> \o RemainingLogsByPosition(Tail(prev), id - 1)

\* prev.filter(l => l.id !== id)
RECURSIVE RemainingLogs(_, _)
RemainingLogs(prev, id) ==
  IF prev = <<>> THEN <<>>
  ELSE (IF prev[1].id # id THEN <<prev[1]>> ELSE <<>>)
         \o RemainingLogs(Tail(prev), id)

\* The fill-ups a user enters (the id is given by addLog).
AppEntries ==
  { FuelLog(0, Instant(11, 5, 0, 0), Fin(100, 1), Fin(3, 1), Fin(7, 2), Fin(21, 2),
            Sunoco, Fin(421, 10), Fin(-71, 1)),
    FuelLog(0, Instant(11, 25, 0, 0), Fin(130, 1), Fin(3, 1), Fin(7, 2), Fin(21, 2),
            <<>>, Undefined, Undefined) }

\* What 'fuelLogs' may hold at startup: nothing, a text that is not JSON,
\* or a collection the application wrote (its ids are unique).
StoredItems ==
  {NoItem, [kind |-> "corrupt"]}
    \cup {Stringify(WithIds(ls)) : ls \in BoundedSeq(AppEntries, MaxStored)}

InitApp ==
  /\ UiOff
  /\ logs = <<>>
  /\ mpgCall = NoCall
  /\ statsView = NoView
  /\ locale = "en-US"
  /\ csvText = NoText
  /\ parsed = NoParse
  /\ phase = "off"
  /\ stored \in StoredItems
  /\ atStart = stored
  /\ effects = <<>>
  /\ queued = NoUpdate
  /\ lastOp = NoOp
  /\ issued = Len(SavedLogs(stored))

\* The first render of App with the lazy initializer lacking its try/catch:
\* the error of JSON.parse leaves App unmounted.
StartAppWithoutCatch ==
  /\ phase = "off"
  /\ phase' = IF stored.kind = "corrupt" THEN "crashed" ELSE "running"
  /\ logs' = SavedLogs(stored)
  /\ effects' = IF stored.kind = "corrupt" THEN <<>> ELSE <<"persist">>
  /\ UNCHANGED <<mpgCall, statsView, locale, uiVars, csvText, parsed,
                 stored, atStart, queued, lastOp, issued>>

\* The first render of App: the lazy initializer of logs reads 'fuelLogs';
\* the persist effect is to run after the render.
StartApp ==
  /\ phase = "off"
  /\ phase' = "running"
  /\ logs' = SavedLogs(stored)
  /\ effects' = <<"persist">>
  /\ UNCHANGED <<mpgCall, statsView, locale, uiVars, csvText, parsed,
                 stored, atStart, queued, lastOp, issued>>

\* useEffect(() => localStorage.setItem('fuelLogs', JSON.stringify(logs)), [logs])
PersistEffect ==
  /\ phase = "running"
  /\ effects # <<>> /\ Head(effects) = "persist"
  /\ stored' = Stringify(logs)
  /\ effects' = Tail(effects)
  /\ UNCHANGED <<logs, mpgCall, statsView, locale, uiVars, csvText, parsed,
                 phase, atStart, queued, lastOp, issued>>

\* An event handler runs when the effects of the last render have run and
\* no update waits for a render.
Idle == phase = "running" /\ effects = <<>> /\ ~queued.pending

\* addLog(logData): the record with a new id goes at the end; setLogs makes
\* App render again and the persist effect run; the history tab is shown.
AddLog ==
  /\ Idle
  /\ Len(logs) < MaxLogs
  /\ issued < MaxIds
  /\ \E logData \in AppEntries :
       /\ logs' = Append(logs, [logData EXCEPT !.id = NewId(logs, issued)])
       /\ lastOp' = [kind |-> "add", before |-> logs,
                     id |-> NewId(logs, issued), confirmed |-> TRUE]
  /\ issued' = issued + 1
  /\ effects' = <<"persist">>
  /\ activeTab' = "HISTORY"
  /\ UNCHANGED <<mpgCall, statsView, locale, csvText, parsed,
                 phase, stored, atStart, queued,
                 historyView, form, scan, access>>

\* updateLog(updatedLog), called by the edit dialog with its record edited.
UpdateLog ==
  /\ Idle
  /\ \E id \in 1..MaxIds, edited \in AppEntries :
       /\ logs' = UpdatedLogs(logs, [edited EXCEPT !.id = id])
       /\ lastOp' = [kind |-> "update", before |-> logs,
                     id |-> id, confirmed |-> TRUE,
                     updatedLog |-> [edited EXCEPT !.id = id]]
  /\ effects' = <<"persist">>
  /\ UNCHANGED <<mpgCall, statsView, locale, uiVars, csvText, parsed,
                 phase, stored, atStart, queued, issued>>

\* The delete button: if (window.confirm('Delete this entry?')) onDelete(id),
\* and deleteLog(id).
DeleteLog ==
  /\ Idle
  /\ \E id \in 1..MaxIds, confirmed \in BOOLEAN :
       /\ logs' = IF confirmed THEN RemainingLogs(logs, id) ELSE logs
       /\ effects' = IF confirmed THEN <<"persist">> ELSE effects
       /\ lastOp' = [kind |-> "delete", before |-> logs,
                     id |-> id, confirmed |-> confirmed]
  /\ UNCHANGED <<mpgCall, statsView, locale, uiVars, csvText, parsed,
                 phase, stored, atStart, queued, issued>>

\* clearAllData: setLogs([]) when the user confirms.
ClearAllData ==
  /\ Idle
  /\ \E confirmed \in BOOLEAN :
       /\ logs' = IF confirmed THEN <<>> ELSE logs
       /\ effects' = IF confirmed THEN <<"persist">> ELSE effects
       /\ lastOp' = [kind |-> "clear", before |-> logs,
                     id |-> 0, confirmed |-> confirmed]
  /\ UNCHANGED <<mpgCall, statsView, locale, uiVars, csvText, parsed,
                 phase, stored, atStart, queued, issued>>

\* The files picked for import in the history view: the header alone, one
\* and two well-formed rows, a row of four fields.
PickedTexts ==
  {Join(<<Join(Headers, <<Comma>>)>> \o rows, <<"\n">>) :
     rows \in { <<>>,
                <<ImportLine(DateGood, <<"1", "2", "0">>, <<"3", ".", "3", "6">>, <<>>)>>,
                <<ImportLine(DateGood, <<"1", "2", "0">>, <<"3", ".", "3", "6">>, <<>>),
                  ImportLine(DateGood, <<"1", "4", "0">>, Abc, <<>>)>>,
                <<Join(<<DateGood, <<"1", "6", "0">>, <<"1", "2", ".", "5">>,
                         <<"3", ".", "3", "6">>>>, <<Comma>>)>> }}

\* parseCSV(text) for each of the picked files.
PickedOutcomes == {ParseCSV(text, now) : text \in PickedTexts, now \in NowInstants}

\* What reader.onload does with the outcome r of parseCSV: how many records
\* were decoded, and its alert.  App renders FuelHistory with logs, onDelete
\* and onUpdate only: onImport is undefined and the call
\* onImport(importedLogs) throws a TypeError, inside the try.
ImportOutcome(r, before) ==
  [kind |-> "import", before |-> before, id |-> 0, confirmed |-> TRUE,
   decoded |-> Len(r.records),
   alert |-> IF r.threw THEN "Failed to parse CSV file."
             ELSE IF Len(r.records) > 0 THEN "Failed to parse CSV file."
             ELSE "No valid entries found in CSV."]

\* handleFileChange and its reader.onload: the picked file goes through
\* parseCSV; no setLogs is reached.
HandleFileChange ==
  /\ Idle
  /\ \E r \in PickedOutcomes : lastOp' = ImportOutcome(r, logs)
  /\ UNCHANGED <<logs, mpgCall, statsView, locale, uiVars, csvText, parsed,
                 phase, stored, atStart, effects, queued, issued>>

NextApp ==
  \/ StartApp
  \/ PersistEffect
  \/ AddLog
  \/ UpdateLog
  \/ DeleteLog
  \/ ClearAllData
  \/ HandleFileChange

SpecApp == InitApp /\ [][NextApp]_vars

----------------------------------------------------------------------------
(* The App that loads the collection in an effect on mount *)

\* The first render of this App: logs is [], and the load effect and the
\* persist effect are to run after the render, in this order.
StartAppOnMount ==
  /\ phase = "off"
  /\ phase' = "running"
  /\ logs' = <<>>
  /\ effects' = <<"load", "persist">>
  /\ UNCHANGED <<mpgCall, statsView, locale, uiVars, csvText, parsed,
                 stored, atStart, queued, lastOp, issued>>

\* The load effect: if (savedLogs) setLogs(JSON.parse(savedLogs)), the
\* parse error caught; the new state waits for the next render.
LoadEffect ==
  /\ phase = "running"
  /\ effects # <<>> /\ Head(effects) = "load"
  /\ queued' = IF stored.kind = "json"
               THEN [pending |-> TRUE, value |-> stored.value]
               ELSE queued
  /\ effects' = Tail(effects)
  /\ UNCHANGED <<logs, mpgCall, statsView, locale, uiVars, csvText, parsed,
                 phase, stored, atStart, lastOp, issued>>

\* The render that follows setLogs(value) of the load effect: logs is the
\* value, and the persist effect is to run again.
RenderLoaded ==
  /\ phase = "running"
  /\ effects = <<>>
  /\ queued.pending
  /\ logs' = queued.value
  /\ queued' = NoUpdate
  /\ effects' = <<"persist">>
  /\ UNCHANGED <<mpgCall, statsView, locale, uiVars, csvText, parsed,
                 phase, stored, atStart, lastOp, issued>>

NextAppOnMount ==
  \/ StartAppOnMount
  \/ LoadEffect
  \/ PersistEffect
  \/ RenderLoaded
  \/ AddLog
  \/ DeleteLog

SpecAppOnMount == InitApp /\ [][NextAppOnMount]_vars

----------------------------------------------------------------------------
(* The entry form: FuelEntry in the App of part_005 *)

\* How many records the entry form may give the collection.
MaxEntries == 1

\* The k digits of m (m < 10^k), leading zeros kept.
RECURSIVE PadDigits(_, _)
PadDigits(m, k) ==
  IF k = 0 THEN <<>>
  ELSE <<Digits[(m \div Pow10(k - 1)) + 1]>> \o PadDigits(m % Pow10(k - 1), k - 1)

\* Number.prototype.toFixed(digits) of a finite number: rounded to the
\* nearest, all the fraction digits printed.
ToFixed(x, digits) ==
  CASE x.k = "nan" -> <<"N", "a", "N">>
    [] x.k = "inf" -> (IF x.n < 0 THEN <<"-">> ELSE <<>>)
                        \o <<"I", "n", "f", "i", "n", "i", "t", "y">>
    [] OTHER ->
         Bind((2 * Abs(x.n) * Pow10(digits) + x.d) \div (2 * x.d), LAMBDA m :
           (IF x.n < 0 /\ m > 0 THEN <<"-">> ELSE <<>>)
             \o NatToChars(m \div Pow10(digits))
             \o (IF digits = 0 THEN <<>>
                 ELSE <<".">> \o PadDigits(m % Pow10(digits), digits)))

Other == <<"O", "t", "h", "e", "r">>

\* coords === null
NoCoords == [set |-> FALSE]

\* scanFeedback === null
NoFeedback == [shown |-> FALSE]

\* The state of FuelEntry when it mounts; combinedOptions[0] is 'Sunoco'.
InitialForm ==
  [mounted |-> TRUE,
   odometer |-> <<>>, gallons |-> <<>>, pricePerGallon |-> <<>>, totalCost |-> <<>>,
   stationType |-> Sunoco, customLocation |-> <<>>,
   coords |-> NoCoords, showManualCoords |-> FALSE,
   manualLat |-> <<>>, manualLng |-> <<>>,
   isScanning |-> FALSE, isLocating |-> FALSE, scanFeedback |-> NoFeedback]

\* What the user types in the number inputs (a number input holds the empty
\* text or the text of a number).
FieldTexts ==
  [odometer       |-> {<<>>, <<"1", "2", "0">>},
   gallons        |-> {<<>>, <<"4">>},
   pricePerGallon |-> {<<>>, <<"0">>, <<"2", ".", "5">>},
   totalCost      |-> {<<>>, <<"9">>},
   manualLat      |-> {<<>>, <<"1", "0">>},
   manualLng      |-> {<<>>, <<"-", "2", "0">>}]

\* What getCurrentPosition reports.
Positions == {[set |-> TRUE, lat |-> Fin(85, 2), lng |-> Fin(-293, 4)]}

\* handleSubmit without the test of the required fields.
RequiredMissingNever(f) == FALSE

\* handleSubmit: !odometer || !gallons || !totalCost.
RequiredMissing(f) ==
  f.odometer = <<>> \/ f.gallons = <<>> \/ f.totalCost = <<>>

\* handleSubmit: finalLocation.
FinalLocation(f) ==
  IF f.stationType = Other THEN f.customLocation ELSE f.stationType

\* handleSubmit: the manual coordinates replace those of the GPS when the
\* manual mode is on, both texts are filled and both parse.
ManualApplies(f) ==
  /\ f.showManualCoords /\ f.manualLat # <<>> /\ f.manualLng # <<>>
  /\ ~IsNaN(ParseFloat(f.manualLat)) /\ ~IsNaN(ParseFloat(f.manualLng))

\* handleSubmit with each manual coordinate taken when its own text parses.
FinalLatEachAlone(f) ==
  IF f.showManualCoords /\ f.manualLat # <<>> /\ ~IsNaN(ParseFloat(f.manualLat))
  THEN ParseFloat(f.manualLat)
  ELSE IF f.coords.set THEN f.coords.lat ELSE Undefined

\* handleSubmit: finalLat.
FinalLat(f) ==
  IF ManualApplies(f) THEN ParseFloat(f.manualLat)
  ELSE IF f.coords.set THEN f.coords.lat ELSE Undefined

\* handleSubmit: finalLng.
FinalLng(f) ==
  IF ManualApplies(f) THEN ParseFloat(f.manualLng)
  ELSE IF f.coords.set THEN f.coords.lng ELSE Undefined

\* handleSubmit: parseFloat(pricePerGallon) || (parseFloat(totalCost) /
\* parseFloat(gallons)).
FinalPrice(f) ==
  IF Truthy(ParseFloat(f.pricePerGallon))
  THEN ParseFloat(f.pricePerGallon)
  ELSE JsDiv(ParseFloat(f.totalCost), ParseFloat(f.gallons))

\* handleSubmit: the argument of onAddLog.
SubmittedLog(f, now) ==
  FuelLog(0, now, ParseFloat(f.odometer), ParseFloat(f.gallons),
          FinalPrice(f), ParseFloat(f.totalCost),
          FinalLocation(f), FinalLat(f), FinalLng(f))

\* handleSubmit: "Reset fields".
ResetForm(f) ==
  [f EXCEPT !.odometer = <<>>, !.gallons = <<>>, !.pricePerGallon = <<>>,
            !.totalCost = <<>>, !.stationType = Sunoco, !.customLocation = <<>>,
            !.coords = NoCoords, !.manualLat = <<>>, !.manualLng = <<>>,
            !.showManualCoords = FALSE, !.scanFeedback = NoFeedback]

\* The collections App may hold when the entry form is first shown.
EntryLogs ==
  {<<>>,
   WithIds(<<FuelLog(0, Instant(11, 5, 0, 0), Fin(100, 1), Fin(3, 1), Fin(7, 2),
                     Fin(21, 2), Sunoco, Fin(421, 10), Fin(-71, 1))>>)}

\* App is running with its collection persisted, the entry tab shown and
\* FuelEntry mounted.
InitEntry ==
  /\ logs \in EntryLogs
  /\ mpgCall = NoCall
  /\ statsView = NoView
  /\ historyView = NoView
  /\ locale = "en-US"
  /\ csvText = NoText
  /\ parsed = NoParse
  /\ phase = "running"
  /\ stored = Stringify(logs)
  /\ atStart = stored
  /\ effects = <<>>
  /\ queued = NoUpdate
  /\ lastOp = NoOp
  /\ issued = Len(logs)
  /\ activeTab = "ENTRY"
  /\ form = InitialForm
  /\ scan = NoScan
  /\ access = NoAccess

\* The entry form is on the screen and takes events.
FormShown == Idle /\ activeTab = "ENTRY" /\ form.mounted

formFrame == <<logs, mpgCall, statsView, locale, csvText, parsed,
               phase, stored, atStart, effects, queued, lastOp, issued,
               historyView, activeTab, scan, access>>

\* onChange of a number input: setOdometer, setGallons, setPricePerGallon,
\* setTotalCost, and setManualLat, setManualLng when the manual inputs show.
ChangeField ==
  /\ FormShown
  /\ \E field \in DOMAIN FieldTexts :
       /\ field \in {"manualLat", "manualLng"} => form.showManualCoords
       /\ \E text \in FieldTexts[field] : form' = [form EXCEPT ![field] = text]
  /\ UNCHANGED formFrame

\* onChange of the station select (the custom location input, which shows
\* when the station is 'Other', is left empty).
ChangeStation ==
  /\ FormShown
  /\ \E option \in {Sunoco, Other} : form' = [form EXCEPT !.stationType = option]
  /\ UNCHANGED formFrame

\* getLocation in a browser with geolocation; the button is disabled while
\* a position is awaited.
GetLocation ==
  /\ FormShown
  /\ ~form.isLocating
  /\ form' = [form EXCEPT !.isLocating = TRUE, !.showManualCoords = FALSE]
  /\ UNCHANGED formFrame

\* The success callback of getCurrentPosition.
PositionFound ==
  /\ FormShown
  /\ form.isLocating
  /\ \E position \in Positions :
       form' = [form EXCEPT !.coords = position, !.isLocating = FALSE]
  /\ UNCHANGED formFrame

\* The error callback of getCurrentPosition.
PositionFailed ==
  /\ FormShown
  /\ form.isLocating
  /\ form' = [form EXCEPT !.isLocating = FALSE]
  /\ UNCHANGED formFrame

\* toggleManualCoords: the GPS coordinates prefill the empty manual inputs.
ToggleManualCoords ==
  /\ FormShown
  /\ form' = IF ~form.showManualCoords /\ form.coords.set
                /\ form.manualLat = <<>> /\ form.manualLng = <<>>
             THEN [form EXCEPT !.showManualCoords = TRUE,
                               !.manualLat = ToFixed(form.coords.lat, 6),
                               !.manualLng = ToFixed(form.coords.lng, 6)]
             ELSE [form EXCEPT !.showManualCoords = ~form.showManualCoords]
  /\ UNCHANGED formFrame

\* handleSubmit, with addLog of App that it calls: an alert and nothing
\* else when a required field is empty; otherwise the record goes at the end
\* of the collection, the history tab is shown and the fields are reset.
HandleSubmit ==
  /\ FormShown
  /\ IF RequiredMissing(form)
     THEN /\ lastOp' = [kind |-> "submit", before |-> logs, id |-> 0,
                        confirmed |-> FALSE, entered |-> form.pricePerGallon]
          /\ UNCHANGED <<logs, issued, effects, activeTab, form>>
     ELSE /\ Len(logs) < MaxLogs /\ issued < MaxIds
          /\ \E now \in NowInstants :
               logs' = Append(logs, [SubmittedLog(form, now)
                                       EXCEPT !.id = NewId(logs, issued)])
          /\ lastOp' = [kind |-> "submit", before |-> logs,
                        id |-> NewId(logs, issued), confirmed |-> TRUE,
                        entered |-> form.pricePerGallon]
          /\ issued' = issued + 1
          /\ effects' = <<"persist">>
          /\ activeTab' = "HISTORY"
          /\ form' = ResetForm(form)
  /\ UNCHANGED <<mpgCall, statsView, locale, csvText, parsed,
                 phase, stored, atStart, queued, historyView, scan, access>>

\* onTabChange of the navigation: FuelEntry is rendered on the entry tab
\* only, and mounts anew each time the tab is shown again.
OnTabChange ==
  /\ Idle
  /\ \E tab \in {"ENTRY", "HISTORY"} :
       /\ tab # activeTab
       /\ tab = "ENTRY" => Len(logs) < MaxEntries
       /\ activeTab' = tab
       /\ form' = IF tab = "ENTRY" THEN InitialForm ELSE NoForm
  /\ UNCHANGED <<logs, mpgCall, statsView, locale, csvText, parsed,
                 phase, stored, atStart, effects, queued, lastOp, issued,
                 historyView, scan, access>>

\* What the user leaves in the odometer input of EditModal.
EditedOdometers == {<<"1", "2", "1">>}

\* EditModal.handleSubmit: the argument of onSave, {...log, date, odometer,
\* gallons, totalCost, pricePerGallon, location} (the inputs left as they
\* were prefilled give the record's values back).
EditedLog(log, date, odometer) ==
  [log EXCEPT !.date = date, !.odometer = ParseFloat(odometer)]

\* EditModal.handleSubmit with onSave = updateLog of App, on a card of the
\* history tab.  When the date input holds no date, new Date(date)
\* .toISOString() throws a RangeError and nothing is saved.
SaveEdit ==
  /\ Idle /\ activeTab = "HISTORY"
  /\ \E i \in 1..Len(logs), odometer \in EditedOdometers, dateReads \in BOOLEAN :
       IF dateReads
       THEN /\ logs' = UpdatedLogs(logs, EditedLog(logs[i], logs[i].date, odometer))
            /\ lastOp' = [kind |-> "update", before |-> logs, id |-> logs[i].id,
                          confirmed |-> TRUE,
                          updatedLog |-> EditedLog(logs[i], logs[i].date, odometer)]
            /\ effects' = <<"persist">>
       ELSE UNCHANGED <<logs, lastOp, effects>>
  /\ UNCHANGED <<mpgCall, statsView, locale, csvText, parsed,
                 phase, stored, atStart, queued, issued,
                 historyView, activeTab, form, scan, access>>

NextEntry ==
  \/ ChangeField
  \/ ChangeStation
  \/ GetLocation
  \/ PositionFound
  \/ PositionFailed
  \/ ToggleManualCoords
  \/ HandleSubmit
  \/ PersistEffect
  \/ OnTabChange
  \/ SaveEdit

SpecEntry == InitEntry /\ [][NextEntry]_vars

----------------------------------------------------------------------------
(* The API key gate: checkKey and the key screen of App (part_005) *)

\* How many key checks may start.
MaxChecks == 3

\* process.env.API_KEY and the item 'gemini_api_key' of localStorage, when
\* they hold a key; the empty text when they do not.
EnvKey == <<"e", "n", "v">>

TypedKey == <<"A", "I", "z", "a", "S", "y", "t", "y", "p", "e", "d">>

\* A text too short for handleManualKeySubmit (not more than 10 characters).
ShortKey == <<"a", "b", "c">>

\* No check has completed yet.
NoCompletion == [done |-> FALSE]

\* window.aistudio is absent, or present with a key selected or not; in AI
\* Studio the selected key is what process.env.API_KEY holds.
KeySources ==
  {[studio |-> studio, env |-> env, local |-> local] :
     studio \in {"absent", "unselected", "selected"},
     env \in {<<>>, EnvKey}, local \in {<<>>, TypedKey}}

\* App's key state at construction (isKeySet false, isCheckingKey true),
\* before the mount effect, with the key sources s.
GateAccess(s) ==
  [isKeySet |-> FALSE, isCheckingKey |-> TRUE, showManualEntry |-> FALSE,
   mounted |-> FALSE,
   checks |-> [id \in 1..MaxChecks |-> "none"],
   dialogs |-> 0,
   studio |-> s.studio, env |-> s.env, local |-> s.local,
   last |-> NoCompletion]

\* The ids of the checks in flight.
InFlight(a) == {id \in DOMAIN a.checks : a.checks[id] \in {"delay", "query"}}

\* How many checks have started.
Started(a) == Cardinality({id \in DOMAIN a.checks : a.checks[id] # "none"})

\* Another check, or another key dialog that leads to one, may start.
MayStart(a) == Started(a) + a.dialogs < MaxChecks

\* checkKey up to its first await: setIsCheckingKey(true), then the delay of
\* 500 ms.
CheckStarted(a) ==
  [a EXCEPT !.isCheckingKey = TRUE, !.checks[Started(a) + 1] = "delay"]

\* checkKey with the environment and localStorage read only when AI Studio
\* is absent.
HasKeyStudioFirst(a, answer) ==
  IF a.studio # "absent" THEN answer ELSE (a.env # <<>> \/ a.local # <<>>)

\* checkKey: hasKey, from the answer of AI Studio (false when there is none
\* or when the query failed), the environment and localStorage.
HasKey(a, answer) == answer \/ a.env # <<>> \/ a.local # <<>>

\* checkKey at its end: setIsKeySet(hasKey), setIsCheckingKey(false); the
\* key sources of that moment are noted.
CheckCompleted(a, id, answer) ==
  [a EXCEPT !.isKeySet = HasKey(a, answer), !.isCheckingKey = FALSE,
            !.checks[id] = "done",
            !.last = [done |-> TRUE, id |-> id,
                      studio |-> a.studio, env |-> a.env, local |-> a.local]]

\* The loading screen, the key screen and the main screen of App's render.
KeyScreen(a) == ~a.isCheckingKey /\ ~a.isKeySet

MainScreen(a) == ~a.isCheckingKey /\ a.isKeySet

----------------------------------------------------------------------------
(* The scan: FuelEntry.handleScan, compressImage and analyzeImage *)

\* getApiKey: the environment first, then localStorage, else ''.
GetApiKey(a) ==
  IF a.env # <<>> THEN a.env
  ELSE IF a.local # <<>> THEN a.local
  ELSE <<>>

\* analyzeImage that sends the request whatever the key.
KeyMissingIgnored(apiKey) == FALSE

\* analyzeImage: if (!apiKey) throw new Error("API Key missing. ...").
KeyMissing(apiKey) == apiKey = <<>>

\* The scan result of an empty response text.
AllNull ==
  [imageType |-> "undefined", confidence |-> Undefined,
   odometer |-> Null, gallons |-> Null, pricePerGallon |-> Null, totalCost |-> Null]

\* What JSON.parse(response.text) may give: the display of a pump with and
\* without a unit price, a dashboard, an image of neither kind; a result may
\* carry values of the other kind too.
ScanResults ==
  { [imageType |-> "pump", confidence |-> Fin(9, 10),
     odometer |-> Fin(45000, 1), gallons |-> Fin(8, 1),
     pricePerGallon |-> Fin(3, 1), totalCost |-> Fin(24, 1)],
    [imageType |-> "pump", confidence |-> Fin(1, 2),
     odometer |-> Null, gallons |-> Fin(8, 1),
     pricePerGallon |-> Null, totalCost |-> Fin(25, 1)],
    [imageType |-> "odometer", confidence |-> Fin(9, 10),
     odometer |-> Fin(45000, 1), gallons |-> Fin(8, 1),
     pricePerGallon |-> Null, totalCost |-> Null],
    [imageType |-> "undefined", confidence |-> Undefined,
     odometer |-> Fin(45000, 1), gallons |-> Fin(8, 1),
     pricePerGallon |-> Fin(3, 1), totalCost |-> Fin(24, 1)] }

\* How generateContent settles: rejected, or fulfilled with a response whose
\* text is empty, is not JSON, or is the JSON of a result.
Responses ==
  {[kind |-> "rejected"], [kind |-> "empty"], [kind |-> "malformed"]}
    \cup {[kind |-> "json", result |-> r] : r \in ScanResults}

\* analyzeImage after the request: what it returns or throws to its caller.
Analysis(response) ==
  CASE response.kind = "rejected"  -> [threw |-> TRUE, message |-> "request failed"]
    [] response.kind = "malformed" -> [threw |-> TRUE, message |-> "Unexpected token"]
    [] response.kind = "empty"     -> [threw |-> FALSE, result |-> AllNull]
    [] OTHER                       -> [threw |-> FALSE, result |-> response.result]

\* handleScan: type = result.imageType || 'unknown'.
TypeOf(result) ==
  IF result.imageType = "undefined" THEN "unknown" ELSE result.imageType

\* handleScan: the price shown for a pump result.
ScannedPrice(f, result) ==
  IF Truthy(result.totalCost) /\ Truthy(result.gallons) /\ ~Truthy(result.pricePerGallon)
  THEN ToFixed(JsDiv(result.totalCost, result.gallons), 3)
  ELSE IF Truthy(result.pricePerGallon) THEN NumberToString(result.pricePerGallon)
  ELSE f.pricePerGallon

\* handleScan that takes every value the result carries.
ApplyScanAnyType(f, result) ==
  [f EXCEPT
     !.gallons = IF Truthy(result.gallons) THEN NumberToString(result.gallons) ELSE @,
     !.pricePerGallon = ScannedPrice(f, result),
     !.totalCost = IF Truthy(result.totalCost) THEN NumberToString(result.totalCost) ELSE @,
     !.odometer = IF Truthy(result.odometer) THEN NumberToString(result.odometer) ELSE @,
     !.scanFeedback = [shown |-> TRUE, type |-> TypeOf(result),
                       confidence |-> IF Truthy(result.confidence)
                                      THEN result.confidence ELSE Fin(0, 1)]]

\* handleScan on the result of analyzeImage: the fields of the result's
\* type are set from its values that are truthy, and the feedback is shown.
ApplyScan(f, result) ==
  [f EXCEPT
     !.gallons = IF TypeOf(result) = "pump" /\ Truthy(result.gallons)
                 THEN NumberToString(result.gallons) ELSE @,
     !.pricePerGallon = IF TypeOf(result) = "pump"
                        THEN ScannedPrice(f, result) ELSE @,
     !.totalCost = IF TypeOf(result) = "pump" /\ Truthy(result.totalCost)
                   THEN NumberToString(result.totalCost) ELSE @,
     !.odometer = IF TypeOf(result) = "odometer" /\ Truthy(result.odometer)
                  THEN NumberToString(result.odometer) ELSE @,
     !.scanFeedback = [shown |-> TRUE, type |-> TypeOf(result),
                       confidence |-> IF Truthy(result.confidence)
                                      THEN result.confidence ELSE Fin(0, 1)]]

\* handleScan whose catch leaves the scanning flag set.
ScanEndedOnSuccessOnly(f, threw) ==
  IF threw THEN f ELSE [f EXCEPT !.isScanning = FALSE]

\* handleScan: finally { setIsScanning(false) }, after the try and after the
\* catch.
ScanEnded(f, threw) == [f EXCEPT !.isScanning = FALSE]

\* No scan is under way; what the last one came to is kept.
IdleScan == [pc |-> "idle", called |-> FALSE, sent |-> FALSE, caught |-> FALSE]

\* The key gate when the entry form is on the screen: the main screen is
\* shown, outside AI Studio, whether a key is at hand or not.
ScanAccess ==
  {[GateAccess(s) EXCEPT !.isKeySet = TRUE, !.isCheckingKey = FALSE,
                         !.mounted = TRUE,
                         !.checks = [id \in 1..MaxChecks |->
                                       IF id = 1 THEN "done" ELSE "none"]] :
     s \in {k \in KeySources : k.studio = "absent"}}

\* App is running with the entry tab shown, FuelEntry mounted; a key may be
\* at hand or not.
InitScan ==
  /\ logs = <<>>
  /\ mpgCall = NoCall
  /\ statsView = NoView
  /\ historyView = NoView
  /\ locale = "en-US"
  /\ csvText = NoText
  /\ parsed = NoParse
  /\ phase = "running"
  /\ stored = Stringify(logs)
  /\ atStart = stored
  /\ effects = <<>>
  /\ queued = NoUpdate
  /\ lastOp = NoOp
  /\ issued = 0
  /\ activeTab = "ENTRY"
  /\ form = InitialForm
  /\ scan = IdleScan
  /\ access \in ScanAccess

scanFrame == <<logs, mpgCall, statsView, locale, csvText, parsed,
               phase, stored, atStart, effects, queued, lastOp, issued,
               historyView, activeTab>>

\* handleScan on a picked image, up to its first await: the scan button is
\* disabled while a scan runs, and the rescan button is part of the feedback,
\* which a running scan has cleared.
HandleScan ==
  /\ FormShown
  /\ ~form.isScanning
  /\ form' = [form EXCEPT !.isScanning = TRUE, !.scanFeedback = NoFeedback]
  /\ scan' = [pc |-> "compress", called |-> FALSE, sent |-> FALSE,
              caught |-> FALSE]
  /\ UNCHANGED scanFrame
  /\ UNCHANGED access

\* compressImage settles.  Rejected: the catch and the finally of handleScan
\* run.  Fulfilled: analyzeImage is called; without a key it throws, and the
\* catch and the finally run; with a key the request is sent.
CompressSettles ==
  /\ scan.pc = "compress"
  /\ \E compressed \in BOOLEAN :
       IF ~compressed
       THEN /\ scan' = [pc |-> "idle", called |-> FALSE, sent |-> FALSE,
                        caught |-> TRUE]
            /\ form' = ScanEnded(form, TRUE)
       ELSE IF KeyMissing(GetApiKey(access))
       THEN /\ scan' = [pc |-> "idle", called |-> TRUE, sent |-> FALSE,
                        env |-> access.env, local |-> access.local,
                        caught |-> TRUE,
                        analysis |-> [threw |-> TRUE, message |-> "API Key missing"]]
            /\ form' = ScanEnded(form, TRUE)
       ELSE /\ scan' = [pc |-> "request", called |-> TRUE, sent |-> TRUE,
                        env |-> access.env, local |-> access.local,
                        caught |-> FALSE]
            /\ form' = form
  /\ UNCHANGED scanFrame
  /\ UNCHANGED access

\* generateContent settles: analyzeImage returns or throws, and handleScan
\* goes on to its end.
ResponseArrives ==
  /\ scan.pc = "request"
  /\ \E response \in Responses :
       /\ scan' = [pc |-> "idle", called |-> TRUE, sent |-> TRUE,
                   env |-> scan.env, local |-> scan.local,
                   response |-> response.kind,
                   caught |-> Analysis(response).threw,
                   analysis |-> Analysis(response)]
       /\ form' = IF Analysis(response).threw
                  THEN ScanEnded(form, TRUE)
                  ELSE ScanEnded(ApplyScan(form, Analysis(response).result), FALSE)
  /\ UNCHANGED scanFrame
  /\ UNCHANGED access

\* Settings.handleSaveKey: a key typed is stored under 'gemini_api_key', an
\* empty input removes the item.
HandleSaveKey ==
  /\ Idle
  /\ MainScreen(access)
  /\ \E apiKey \in {<<>>, TypedKey} : access' = [access EXCEPT !.local = apiKey]
  /\ UNCHANGED scanFrame
  /\ UNCHANGED <<form, scan>>

NextScan ==
  \/ ChangeField
  \/ HandleScan
  \/ CompressSettles
  \/ ResponseArrives
  \/ HandleSaveKey

SpecScan == InitScan /\ [][NextScan]_vars

\* The promises of compressImage and of generateContent settle.
SpecScanFair ==
  SpecScan /\ WF_vars(CompressSettles) /\ WF_vars(ResponseArrives)

----------------------------------------------------------------------------
(* The key gate as a specification *)

InitAccess ==
  /\ logs = <<>>
  /\ mpgCall = NoCall
  /\ statsView = NoView
  /\ historyView = NoView
  /\ locale = "en-US"
  /\ csvText = NoText
  /\ parsed = NoParse
  /\ phase = "running"
  /\ stored = Stringify(logs)
  /\ atStart = stored
  /\ effects = <<>>
  /\ queued = NoUpdate
  /\ lastOp = NoOp
  /\ issued = 0
  /\ activeTab = "ENTRY"
  /\ form = NoForm
  /\ scan = NoScan
  /\ access \in {GateAccess(s) :
                   s \in {k \in KeySources : k.studio = "selected" => k.env # <<>>}}

accessFrame == <<logs, mpgCall, statsView, locale, csvText, parsed,
                 phase, stored, atStart, effects, queued, lastOp, issued,
                 historyView, activeTab, form, scan>>

\* The mount effect of App: checkKey().
MountEffect ==
  /\ ~access.mounted
  /\ access' = [CheckStarted(access) EXCEPT !.mounted = TRUE]
  /\ UNCHANGED accessFrame

\* The delay of a check is over: with AI Studio the check goes on to
\* hasSelectedApiKey(), without it the check reads the other sources and
\* completes.
DelayElapses ==
  /\ \E id \in DOMAIN access.checks :
       /\ access.checks[id] = "delay"
       /\ access' = IF access.studio = "absent"
                    THEN CheckCompleted(access, id, FALSE)
                    ELSE [access EXCEPT !.checks[id] = "query"]
  /\ UNCHANGED accessFrame

\* hasSelectedApiKey() settles, fulfilled with the selection or rejected
\* (caught and logged), and the check completes.
QueryAnswers ==
  /\ \E id \in DOMAIN access.checks, rejected \in BOOLEAN :
       /\ access.checks[id] = "query"
       /\ access' = CheckCompleted(access, id,
                                   ~rejected /\ access.studio = "selected")
  /\ UNCHANGED accessFrame

\* handleConnectAIStudio up to its await: with AI Studio the key dialog
\* opens, without it the manual entry shows.
HandleConnectAIStudio ==
  /\ access.mounted
  /\ KeyScreen(access) /\ ~access.showManualEntry
  /\ IF access.studio = "absent"
     THEN access' = [access EXCEPT !.showManualEntry = TRUE]
     ELSE /\ MayStart(access)
          /\ access' = [access EXCEPT !.dialogs = @ + 1]
  /\ UNCHANGED accessFrame

\* openSelectKey() settles: rejected, an alert; fulfilled, with a key
\* selected or the dialog dismissed, checkKey() is called.
DialogCloses ==
  /\ access.dialogs > 0
  /\ \E outcome \in {"selected", "dismissed", "rejected"} :
       access' =
         CASE outcome = "rejected" -> [access EXCEPT !.dialogs = @ - 1]
           [] outcome = "dismissed" ->
                CheckStarted([access EXCEPT !.dialogs = @ - 1])
           [] OTHER ->
                CheckStarted([access EXCEPT !.dialogs = @ - 1,
                                            !.studio = "selected",
                                            !.env = EnvKey])
  /\ UNCHANGED accessFrame

\* The buttons 'Enter API Key Manually' and 'Back' of the key screen.
SetShowManualEntry ==
  /\ access.mounted
  /\ KeyScreen(access)
  /\ access' = [access EXCEPT !.showManualEntry = ~access.showManualEntry]
  /\ UNCHANGED accessFrame

\* handleManualKeySubmit: a key of more than 10 characters is stored under
\* 'gemini_api_key' and checkKey() is called; otherwise an alert.
HandleManualKeySubmit ==
  /\ access.mounted
  /\ KeyScreen(access) /\ access.showManualEntry
  /\ MayStart(access)
  /\ \E manualKey \in {ShortKey, TypedKey} :
       access' = IF Len(manualKey) > 10
                 THEN CheckStarted([access EXCEPT !.local = manualKey])
                 ELSE access
  /\ UNCHANGED accessFrame

NextAccess ==
  \/ MountEffect
  \/ DelayElapses
  \/ QueryAnswers
  \/ HandleConnectAIStudio
  \/ DialogCloses
  \/ SetShowManualEntry
  \/ HandleManualKeySubmit
  \/ HandleSaveKey

SpecAccess == InitAccess /\ [][NextAccess]_vars

\* The timer of a check fires, and the promise of hasSelectedApiKey settles.
SpecAccessFair ==
  SpecAccess /\ WF_vars(MountEffect) /\ WF_vars(DelayElapses) /\ WF_vars(QueryAnswers)

----------------------------------------------------------------------------
(* Properties of the derivation engine (checked under Spec) *)

\* The value n/d as a number, written without JsDiv: x is finite and x = n/d.
EqualsRatio(x, n, d) == x.k = "fin" /\ d # 0 /\ x.n * d = n * x.d

\* C1: calculateMPG(current, previous) is null exactly when
\* current.odometer <= previous.odometer; otherwise, with current.gallons > 0,
\* it is exactly (current.odometer - previous.odometer) / current.gallons:
\* the current record's volume, and no rounding.
C1_CalculateMPG ==
  mpgCall.called =>
    LET cur  == mpgCall.current
        prev == mpgCall.previous
        co   == cur.odometer.n * prev.odometer.d
        po   == prev.odometer.n * cur.odometer.d
    IN  /\ (mpgCall.result = Null) <=> (co <= po)
        /\ (co > po /\ cur.gallons.n > 0) =>
             EqualsRatio(mpgCall.result,
                         (co - po) * cur.gallons.d,
                         cur.odometer.d * prev.odometer.d * cur.gallons.n)

\* C1's case: a call on an increasing odometer whose quotient is not a
\* whole number, and with a previous record of a different volume.
C1_Witness ==
  /\ mpgCall.called
  /\ mpgCall.result.k = "fin"
  /\ mpgCall.result.d = 3
  /\ mpgCall.previous.gallons # mpgCall.current.gallons

\* The non-null, unrounded calculateMPG(sorted[i], sorted[i-1]), i >= 2.
RECURSIVE PairwiseMpg(_, _)
PairwiseMpg(sorted, i) ==
  IF i > Len(sorted) THEN <<>>
  ELSE LET m == CalculateMPG(sorted[i], sorted[i - 1])
       IN  (IF m # Null THEN <<m>> ELSE <<>>) \o PairwiseMpg(sorted, i + 1)

RECURSIVE SumOf(_)
SumOf(xs) == IF xs = <<>> THEN Fin(0, 1) ELSE JsAdd(xs[1], SumOf(Tail(xs)))

\* C2: for a collection of at least two records the average fuel economy
\* shown by the stats view is the arithmetic mean of the unrounded non-null
\* pairwise calculateMPG values (stated where there is at least one such
\* value and all of them are finite).
C2_AverageOfUnrounded ==
  (statsView.rendered /\ Len(statsView.logs) >= 2) =>
    LET ms == PairwiseMpg(SortedLogs(statsView.logs), 2)
    IN  (ms # <<>> /\ \A i \in 1..Len(ms) : IsFinite(ms[i])) =>
          /\ statsView.out.shown
          /\ statsView.out.avgMpg = JsDiv(SumOf(ms), Fin(Len(ms), 1))

\* The odometer values of a collection, cross-multiplied comparisons.
OdometerIsMax(ls, i) == \A j \in 1..Len(ls) : JsLe(ls[j].odometer, ls[i].odometer)

OdometerIsMin(ls, i) == \A j \in 1..Len(ls) : JsLe(ls[i].odometer, ls[j].odometer)

\* C3: with a positive odometer span, cost-per-distance is the sum of
\* totalCost over (the largest odometer - the smallest odometer) of the
\* whole collection, whatever the order of the dates.
C3_CostOverOdometerSpan ==
  statsView.rendered =>
    \A i, j \in 1..Len(statsView.logs) :
      LET ls   == statsView.logs
          span == JsSub(ls[i].odometer, ls[j].odometer)
      IN  (OdometerIsMax(ls, i) /\ OdometerIsMin(ls, j) /\ JsGt(span, Fin(0, 1))) =>
            /\ statsView.out.shown
            /\ statsView.out.costPerMile = JsDiv(SumOf([k \in 1..Len(ls) |-> ls[k].totalCost]), span)

\* The collection's span is zero or negative: a single record, or the
\* odometer of the last record by date not above that of the first by date.
NonPositiveSpan(ls) ==
  /\ Len(ls) >= 1
  /\ LET sorted == SortedLogs(ls)
     IN  ~JsGt(sorted[Len(sorted)].odometer, sorted[1].odometer)

FiniteOrMissing(x) == x.k \in {"fin", "null", "undefined"}

\* C5: every derivation output (per-record fuel economy, average fuel
\* economy, cost-per-distance) is a finite number or the missing sentinel,
\* never NaN and never infinite.
C5_OutputsFiniteOrMissing ==
  /\ mpgCall.called => FiniteOrMissing(mpgCall.result)
  /\ statsView.rendered =>
       /\ FiniteOrMissing(statsView.out.avgMpg)
       /\ FiniteOrMissing(statsView.out.costPerMile)
       /\ \A i \in 1..Len(statsView.out.chartData) :
            FiniteOrMissing(statsView.out.chartData[i].mpg)

----------------------------------------------------------------------------
(* Properties of the CSV codec (checked under SpecRoundTrip and SpecImport) *)

\* |x - y| <= 1 / 10^FractionDigits, for finite x and y.
WithinTolerance(x, y) ==
  /\ IsFinite(x) /\ IsFinite(y)
  /\ Abs(x.n * y.d - y.n * x.d) * Pow10(FractionDigits) <= x.d * y.d

\* C6: parseCSV applied to the text produced by exportToCSV for a non-empty
\* collection returns as many records, in the same order, each with the
\* original record's odometer, gallons and totalCost, and its pricePerGallon
\* within tolerance, whichever optional fields are absent.
C6_RoundTrip ==
  (csvText.origin = "export" /\ parsed.called) =>
    /\ ~parsed.result.threw
    /\ Len(parsed.result.records) = Len(logs)
    /\ \A i \in 1..Len(logs) :
         /\ parsed.result.records[i].odometer = logs[i].odometer
         /\ parsed.result.records[i].gallons = logs[i].gallons
         /\ parsed.result.records[i].totalCost = logs[i].totalCost
         /\ WithinTolerance(parsed.result.records[i].pricePerGallon, logs[i].pricePerGallon)

\* The fields of a CSV line as its layout gives them: the texts between the
\* commas that stand outside quotes, an empty text between two commas
\* being a field; FieldsOf gives each without its quotes and outer white
\* space.
RawFieldsOf(line) ==
  LET seps == {i \in 1..Len(line) :
                 /\ line[i] = Comma
                 /\ Cardinality({j \in 1..(i - 1) : line[j] = Q}) % 2 = 0}
  IN  [k \in 1..(Cardinality(seps) + 1) |->
         SubSeq(line, NthPosition(seps, k - 1, Len(line)) + 1,
                      NthPosition(seps, k, Len(line)) - 1)]

FieldsOf(line) == [k \in 1..Len(RawFieldsOf(line)) |-> StripQuotes(RawFieldsOf(line)[k])]

\* The data lines of a text: every line after the first.
DataLines(text) ==
  LET lines == SplitLines(text) IN [i \in 1..(Len(lines) - 1) |-> lines[i + 1]]

IsNumber(field) == ~IsNaN(ParseFloat(field))

\* A data line that is not empty, has five fields at least and whose
\* odometer, gallons and totalCost fields parse as numbers.
Decodable(line) ==
  /\ Trim(line) # <<>>
  /\ Len(FieldsOf(Trim(line))) >= 5
  /\ IsNumber(FieldsOf(Trim(line))[2])
  /\ IsNumber(FieldsOf(Trim(line))[3])
  /\ IsNumber(FieldsOf(Trim(line))[5])

\* The record rec carries the odometer, gallons and totalCost of line.
CarriesRow(rec, line) ==
  /\ rec.odometer = ParseFloat(FieldsOf(Trim(line))[2])
  /\ rec.gallons = ParseFloat(FieldsOf(Trim(line))[3])
  /\ rec.totalCost = ParseFloat(FieldsOf(Trim(line))[5])

RECURSIVE SelectLines(_, _)
SelectLines(lines, i) ==
  IF i > Len(lines) THEN <<>>
  ELSE (IF Decodable(lines[i]) THEN <<lines[i]>> ELSE <<>>) \o SelectLines(lines, i + 1)

\* C7: parseCSV returns exactly one record for each non-empty data line of
\* five fields at least whose odometer, gallons and totalCost parse as
\* numbers, none for any other line, in the order of the lines.
C7_OneRecordPerDecodableLine ==
  (csvText.origin = "file" /\ parsed.called) =>
    LET expected == SelectLines(DataLines(csvText.text), 1)
    IN  /\ ~parsed.result.threw
        /\ Len(parsed.result.records) = Len(expected)
        /\ \A i \in 1..Len(expected) : CarriesRow(parsed.result.records[i], expected[i])

\* The date field of a line reads as a date.
DateReads(line) == DateParse(FieldsOf(Trim(line))[1]) # InvalidDate

\* C8: a data row in the export layout whose Price/Gal field is empty or
\* not a number, with numeric Odometer, Gallons and Total Cost, comes back
\* as a record with the row's own odometer, gallons and totalCost and
\* pricePerGallon = totalCost / gallons.  Stated for the files all of whose
\* decodable rows have a date that reads, so that parseCSV completes.
C8_MissingPriceRecomputed ==
  (csvText.origin = "file" /\ parsed.called) =>
    LET rows == DataLines(csvText.text)
    IN  (\A i \in 1..Len(rows) : Decodable(rows[i]) => DateReads(rows[i])) =>
          \A i \in 1..Len(rows) :
            (Decodable(rows[i]) /\ ~IsNumber(FieldsOf(Trim(rows[i]))[4])) =>
              /\ ~parsed.result.threw
              /\ \E k \in 1..Len(parsed.result.records) :
                   /\ CarriesRow(parsed.result.records[k], rows[i])
                   /\ parsed.result.records[k].pricePerGallon
                        = JsDiv(parsed.result.records[k].totalCost,
                                parsed.result.records[k].gallons)

\* The records parseCSV pushes for the rows of a text taken one by one,
\* each as the only data row under the text's first line.
RowAlone(text, line, now) ==
  ParseCSV(Join(<<SplitLines(text)[1], line>>, <<"\n">>), now)

\* C9: a data row whose date field does not read as a date, with numeric
\* odometer, gallons and totalCost, still comes back as a record, its
\* timestamp the wall-clock time of the call; the other rows of the text
\* are returned too.
C9_BadDateFallsBackToNow ==
  (csvText.origin = "file" /\ parsed.called) =>
    LET rows == DataLines(csvText.text)
    IN  \A i \in 1..Len(rows) :
          (Decodable(rows[i]) /\ ~DateReads(rows[i])) =>
            /\ ~parsed.result.threw
            /\ \E k \in 1..Len(parsed.result.records) :
                 /\ CarriesRow(parsed.result.records[k], rows[i])
                 /\ parsed.result.records[k].date = parsed.now
            /\ \A j \in 1..Len(rows) :
                 (j # i /\ Decodable(rows[j]) /\ DateReads(rows[j])
                    /\ IsNumber(FieldsOf(Trim(rows[j]))[4])) =>
                   \E k \in 1..Len(parsed.result.records) :
                     CarriesRow(parsed.result.records[k], rows[j])

RECURSIVE Concat(_)
Concat(seqs) == IF seqs = <<>> THEN <<>> ELSE seqs[1] \o Concat(Tail(seqs))

\* C10: parseCSV never raises, whatever the text, and the records it
\* returns are those each row yields on its own: a malformed row changes
\* neither the presence nor the contents of the records of the other rows.
C10_NeverRaises ==
  (csvText.origin = "file" /\ parsed.called) =>
    /\ ~parsed.result.threw
    /\ LET rows == DataLines(csvText.text)
       IN  parsed.result.records =
             Concat([i \in 1..Len(rows) |->
                       RowAlone(csvText.text, rows[i], parsed.now).records])

\* The k-th field of a line, the empty text when the line is shorter.
FieldAt(line, k) ==
  IF k <= Len(FieldsOf(Trim(line))) THEN FieldsOf(Trim(line))[k] ELSE <<>>

\* The coordinate a column holds: absent for an empty field.
ColumnValue(field) == IF field = <<>> THEN Undefined ELSE ParseFloat(field)

\* A valid data row: a readable date and numeric odometer, gallons, price
\* and total cost.
ValidRow(line) ==
  /\ Decodable(line)
  /\ DateReads(line)
  /\ IsNumber(FieldsOf(Trim(line))[4])

\* C11: latitude and longitude are decoded independently by column: for a
\* valid data row the decoded latitude is the value of the 7th field, absent
\* exactly when that field is empty, and the decoded longitude likewise for
\* the 8th field.  Stated for the files all of whose data rows are valid,
\* where record i is decoded from row i.
C11_CoordinatesByColumn ==
  (csvText.origin = "file" /\ parsed.called) =>
    LET rows == DataLines(csvText.text)
    IN  (\A i \in 1..Len(rows) : ValidRow(rows[i])) =>
          /\ ~parsed.result.threw
          /\ Len(parsed.result.records) = Len(rows)
          /\ \A i \in 1..Len(rows) :
               /\ parsed.result.records[i].latitude = ColumnValue(FieldAt(rows[i], 7))
               /\ parsed.result.records[i].longitude = ColumnValue(FieldAt(rows[i], 8))

\* The text with its first line replaced by the header of the export.
UnderHeader(text) ==
  Join(<<Join(Headers, <<Comma>>)>> \o DataLines(text), <<"\n">>)

\* The number of data lines of a text that are not empty.
NonEmptyDataLines(text) ==
  Cardinality({i \in 1..Len(DataLines(text)) : Trim(DataLines(text)[i]) # <<>>})

\* C12: parseCSV produces no record from the first line of the text,
\* whatever it holds: there are at most as many records as non-empty lines
\* after the first, the outcome is that of the same lines under the export's
\* header, and a text of a first line alone or followed by empty lines only
\* decodes to the empty array.
C12_FirstLineSkipped ==
  (csvText.origin = "file" /\ parsed.called) =>
    /\ Len(parsed.result.records) <= NonEmptyDataLines(csvText.text)
    /\ (csvText.text # <<>>) =>
         parsed.result = ParseCSV(UnderHeader(csvText.text), parsed.now)
    /\ (NonEmptyDataLines(csvText.text) = 0) =>
         (~parsed.result.threw /\ parsed.result.records = <<>>)

\* C12's case: the first line is a well-formed data row, one well-formed
\* data row follows it, and one record only is returned, that of the
\* second line.
C12_Witness ==
  /\ csvText.origin = "file" /\ parsed.called
  /\ Len(SplitLines(csvText.text)) = 2
  /\ ValidRow(SplitLines(csvText.text)[1])
  /\ ValidRow(SplitLines(csvText.text)[2])
  /\ SplitLines(csvText.text)[1] # SplitLines(csvText.text)[2]
  /\ Len(parsed.result.records) = 1
  /\ CarriesRow(parsed.result.records[1], SplitLines(csvText.text)[2])

\* Line i + 1 of the exported text holds the odometer, gallons and total
\* cost of record i.
RowEncodes(line, log) ==
  /\ Len(FieldsOf(line)) = 8
  /\ ParseFloat(FieldsOf(line)[2]) = log.odometer
  /\ ParseFloat(FieldsOf(line)[3]) = log.gallons
  /\ ParseFloat(FieldsOf(line)[5]) = log.totalCost

HeaderThenRows(text, ls) ==
  /\ Len(SplitLines(text)) = Len(ls) + 1
  /\ SplitLines(text)[1] = Join(Headers, <<Comma>>)
  /\ \A i \in 1..Len(ls) : RowEncodes(SplitLines(text)[i + 1], ls[i])

CoordinateField(x) == IF x = Undefined THEN <<>> ELSE NumberToString(x)

\* C14: in every exported row the Latitude and Longitude fields are empty
\* when the coordinate is absent and its numeric value when present, 0
\* included, and the Location field is the location in double quotes.
C14_OptionalFields ==
  (csvText.origin = "export") =>
    \A i \in 1..Len(logs) :
      LET fields == RawFieldsOf(SplitLines(csvText.text)[i + 1])
      IN  /\ Len(fields) = 8
          /\ fields[6] = <<Q>> \o logs[i].location \o <<Q>>
          /\ fields[7] = CoordinateField(logs[i].latitude)
          /\ fields[8] = CoordinateField(logs[i].longitude)

----------------------------------------------------------------------------
(* Properties of the collection and of its persistence (checked under
   SpecApp and SpecAppOnMount) *)

UniqueIds(ls) == \A i, j \in 1..Len(ls) : i # j => ls[i].id # ls[j].id

\* C15: whatever add, update, delete, clear and import operations were made,
\* no two records of the in-memory collection have the same id (each
\* generated id being new); the collection starts empty or as the stored
\* collection, whose ids are unique.
C15_UniqueIds == UniqueIds(logs)

\* C15's case: from an empty collection, a record added after a delete,
\* when the collection has fewer records than ids were given.
C15_Witness ==
  /\ atStart = NoItem
  /\ lastOp.kind = "add"
  /\ issued = 3
  /\ Len(logs) = 2
  /\ logs[1].id = 2

\* The positions of ls whose record has the id.
PositionsOf(ls, id) == {i \in 1..Len(ls) : ls[i].id = id}

\* C16: updateLog(r) is a full replace by id: the collection keeps its
\* length and the id at every position, the record whose id is r.id is r,
\* every other record is as before; with no record of id r.id the
\* collection is as before.
C16_UpdateReplacesById ==
  (lastOp.kind = "update") =>
    /\ Len(logs) = Len(lastOp.before)
    /\ \A i \in 1..Len(lastOp.before) :
         /\ logs[i].id = lastOp.before[i].id
         /\ logs[i] = IF lastOp.before[i].id = lastOp.updatedLog.id
                      THEN lastOp.updatedLog
                      ELSE lastOp.before[i]
    /\ (PositionsOf(lastOp.before, lastOp.updatedLog.id) = {}) => logs = lastOp.before

\* C16's case: an update that changes a record whose id is not its
\* position, in a collection of two records.
C16_Witness ==
  /\ lastOp.kind = "update"
  /\ Len(logs) = 2
  /\ lastOp.before[2].id = 3
  /\ lastOp.updatedLog.id = 3
  /\ logs[2] # lastOp.before[2]

IdIsNot(id, l) == l.id # id

\* C17: deleteLog(id) removes the records of that id and no other, the
\* others staying as they were and in their order; with no record of that
\* id, or when the user does not confirm, the collection is as before.
C17_DeleteRemovesById ==
  (lastOp.kind = "delete") =>
    /\ lastOp.confirmed =>
         /\ PositionsOf(logs, lastOp.id) = {}
         /\ logs = SelectSeq(lastOp.before, LAMBDA l : IdIsNot(lastOp.id, l))
    /\ (~lastOp.confirmed \/ PositionsOf(lastOp.before, lastOp.id) = {}) =>
         logs = lastOp.before

\* C17's case: a confirmed delete of the second of two records, whose id
\* is not its position.
C17_Witness ==
  /\ lastOp.kind = "delete"
  /\ lastOp.confirmed
  /\ Len(lastOp.before) = 2
  /\ lastOp.before[1].id = 2
  /\ lastOp.id = 3
  /\ Len(logs) = 1

\* C18: once the effects of a render have run (no mutation is pending), the
\* item under 'fuelLogs' is the serialization of the whole in-memory
\* collection, after add, update, delete and clear as after startup: it has
\* the records of the collection, all of them, in their order.
C18_StoredIsCollection ==
  (phase = "running" /\ effects = <<>>) =>
    /\ stored.kind = "json"
    /\ Len(stored.value) = Len(logs)
    /\ \A i \in 1..Len(logs) : stored.value[i] = logs[i]

\* C18's case: a delete made on a collection of three records has been
\* persisted.
C18_Witness ==
  /\ phase = "running" /\ effects = <<>>
  /\ lastOp.kind = "delete"
  /\ lastOp.confirmed
  /\ Len(lastOp.before) = 3
  /\ Len(logs) = 2

\* C19: an import whose decode yields n >= 1 records adds n records at the
\* end of the collection, with new ids distinct from the ids there were,
\* the records there were staying as they were; an import that yields no
\* record leaves the collection as it was.
C19_ImportAddsRecords ==
  (lastOp.kind = "import") =>
    IF lastOp.decoded >= 1
    THEN /\ Len(logs) = Len(lastOp.before) + lastOp.decoded
         /\ SubSeq(logs, 1, Len(lastOp.before)) = lastOp.before
         /\ UniqueIds(logs)
    ELSE logs = lastOp.before

\* C20: when the application starts on a stored collection and no operation
\* is made, the item under 'fuelLogs' is in every state the item stored
\* before startup, and once the effects of startup have run the in-memory
\* collection is the stored one.
C20_StartupKeepsStored ==
  (atStart.kind = "json" /\ lastOp = NoOp) =>
    /\ stored = atStart
    /\ Idle => logs = SavedLogs(atStart)

----------------------------------------------------------------------------
(* The history view against the stats view *)

\* C23: for every collection, equal timestamps included, the record against
\* which the history view measures a record (next element of its descending
\* sort) is the record against which the stats view measures it (previous
\* element of its ascending sort).
C23_SamePredecessor ==
  (statsView.rendered /\ historyView.rendered)
    => \A index \in 1..Len(historyView.rows) :
         historyView.rows[index].previous
           = StatsPredecessor(statsView.logs, historyView.rows[index].id)

----------------------------------------------------------------------------
(* Starting without a usable stored collection *)

\* The item found under 'fuelLogs' at the start is absent or is not JSON.
NothingUsableStored == atStart.kind \in {"null", "corrupt"}

\* C30: when the item under 'fuelLogs' is absent or cannot be parsed, the
\* application starts without raising and with the empty collection, and
\* the operations act as on an empty collection: the collection holds only
\* records added since the start, the first add gives the one-record
\* collection, a first update, delete or clear leaves the collection empty.
C30_StartsEmptyWithoutStored ==
  NothingUsableStored =>
    /\ phase \in {"off", "running"}
    /\ (phase = "running" /\ lastOp = NoOp) => logs = <<>>
    /\ Len(logs) <= issued
    /\ \A i \in 1..Len(logs) : logs[i].id \in 1..issued
    /\ (lastOp.kind = "add" /\ lastOp.before = <<>>)
         => (Len(logs) = 1 /\ logs[1].id = lastOp.id)
    /\ (lastOp.kind \in {"update", "delete", "clear"} /\ lastOp.before = <<>>)
         => logs = <<>>

\* The application started on an item that is not JSON, a record was added
\* to the empty collection and the one-record collection was persisted.
C30_Witness ==
  /\ atStart.kind = "corrupt"
  /\ lastOp.kind = "add" /\ lastOp.before = <<>>
  /\ Len(logs) = 1
  /\ stored = Stringify(logs)

----------------------------------------------------------------------------
(* Properties of the entry form (checked under SpecEntry) *)

\* A coordinate that is a number, and one that is left out of the record.
Present(x) == x.k = "fin"

Absent(x) == x = Undefined

\* C21: every record the entry form creates has latitude and longitude both
\* present or both absent, whatever GPS requests, manual-mode toggles and
\* manual inputs came before the submit; and saving an edit leaves the
\* coordinates of every record as they were.
C21_CoordinatesPaired ==
  /\ \A i \in 1..Len(logs) :
        \/ Present(logs[i].latitude) /\ Present(logs[i].longitude)
        \/ Absent(logs[i].latitude) /\ Absent(logs[i].longitude)
  /\ (lastOp.kind = "update" /\ lastOp.confirmed)
       => /\ Len(logs) = Len(lastOp.before)
          /\ \A i \in 1..Len(logs) :
                /\ logs[i].latitude = lastOp.before[i].latitude
                /\ logs[i].longitude = lastOp.before[i].longitude

\* A record submitted with manual coordinates typed over those of the GPS
\* was edited afterwards and still has the manual coordinates.
C21_Witness ==
  /\ lastOp.kind = "update" /\ lastOp.confirmed
  /\ Len(logs) = 2
  /\ logs[2].latitude = Fin(10, 1) /\ logs[2].longitude = Fin(-20, 1)
  /\ logs[2].odometer = Fin(121, 1)

\* C22: the record just saved from the entry form has the price entered
\* whenever a price was entered (0 included), and totalCost / gallons when
\* the price field was left empty.
C22_PriceKeptOrDerived ==
  (lastOp.kind = "submit" /\ lastOp.confirmed)
    => Bind(logs[Len(logs)], LAMBDA saved :
         IF lastOp.entered # <<>>
         THEN saved.pricePerGallon = ParseFloat(lastOp.entered)
         ELSE saved.pricePerGallon = JsDiv(saved.totalCost, saved.gallons))

\* odometer, gallons or total cost is empty.
RequiredEmpty(f) == f.odometer = <<>> \/ f.gallons = <<>> \/ f.totalCost = <<>>

\* The fields of the form are as on a new form.
FieldsReset(f) ==
  /\ f.odometer = <<>> /\ f.gallons = <<>>
  /\ f.pricePerGallon = <<>> /\ f.totalCost = <<>>
  /\ f.stationType = Sunoco /\ f.customLocation = <<>>
  /\ f.coords = NoCoords /\ ~f.showManualCoords
  /\ f.manualLat = <<>> /\ f.manualLng = <<>>

\* A step in which the form is submitted.
SubmitStep == lastOp' # lastOp /\ lastOp'.kind = "submit"

\* C24: a submit with odometer, gallons or total cost empty adds no record
\* and leaves the form and the active tab as they were; a submit with the
\* three filled puts exactly one record at the end of the collection, the
\* records before it unchanged, resets the fields and shows the history tab.
C24_SubmitAddsOneOrNothing ==
  [][SubmitStep =>
       IF RequiredEmpty(form)
       THEN logs' = logs /\ form' = form /\ activeTab' = activeTab
       ELSE /\ Len(logs') = Len(logs) + 1
            /\ SubSeq(logs', 1, Len(logs)) = logs
            /\ FieldsReset(form')
            /\ activeTab' = "HISTORY"]_vars

\* The form was submitted with the required fields filled: the collection
\* holds the record it had and the new one after it, the history tab is
\* shown.
C24_Witness ==
  /\ lastOp.kind = "submit" /\ lastOp.confirmed
  /\ Len(logs) = 2 /\ logs[1] = lastOp.before[1]
  /\ logs[2].odometer = Fin(120, 1)
  /\ activeTab = "HISTORY"
  /\ FieldsReset(form)

----------------------------------------------------------------------------
(* Properties of the scan (checked under SpecScan and SpecScanFair) *)

\* A step in which a scan comes to its end.
ScanCompletes == scan.pc # "idle" /\ scan'.pc = "idle"

OdometerKept == form'.odometer = form.odometer

PumpFieldsKept ==
  /\ form'.gallons = form.gallons
  /\ form'.pricePerGallon = form.pricePerGallon
  /\ form'.totalCost = form.totalCost

\* C25: a scan changes only the fields of its classification: a result
\* classified 'pump' leaves the odometer field, a result classified
\* 'odometer' leaves gallons, price and total cost, and a result of any other
\* classification, or a scan that fails in the compression or in the
\* analysis, leaves the four fields.
C25_ScanChangesItsFieldsOnly ==
  [][ScanCompletes =>
       IF scan'.caught
       THEN OdometerKept /\ PumpFieldsKept
       ELSE /\ scan'.analysis.result.imageType = "pump" => OdometerKept
            /\ scan'.analysis.result.imageType = "odometer" => PumpFieldsKept
            /\ scan'.analysis.result.imageType \notin {"pump", "odometer"}
                 => (OdometerKept /\ PumpFieldsKept)]_vars

\* A scan ended on a pump result that carries an odometer value too: the
\* gallons are the scanned ones, the odometer typed before is still there.
C25_Witness ==
  /\ scan.pc = "idle" /\ scan.sent /\ ~scan.caught
  /\ scan.analysis.result.imageType = "pump"
  /\ scan.analysis.result.odometer = Fin(45000, 1)
  /\ form.gallons = <<"8">>
  /\ form.odometer = <<"1", "2", "0">>

\* A scan has started and has not come to its end.
ScanRunning == scan.pc \in {"compress", "request"}

\* C26: isScanning is true as long as a scan runs, and every scan that
\* starts comes to its end with isScanning false, whether the compression
\* and the analysis succeed or one of them fails.
C26_ScanEnds ==
  /\ [](ScanRunning => form.isScanning)
  /\ ScanRunning ~> (scan.pc = "idle" /\ ~form.isScanning)

\* A scan ended on a request that the vision service rejected.
C26_Witness ==
  /\ scan.pc = "idle" /\ scan.sent /\ scan.caught
  /\ scan.response = "rejected"
  /\ ~form.isScanning

\* The four values of a scan result are null.
AllFourNull(result) ==
  /\ result.odometer = Null /\ result.gallons = Null
  /\ result.pricePerGallon = Null /\ result.totalCost = Null

\* C29: when neither the environment nor localStorage holds a key,
\* analyzeImage throws before a request is sent, and the error reaches
\* handleScan's catch (no result, no feedback); a request is sent with a key
\* only; and an empty response text gives the result of four nulls.
C29_NoKeyFailsBeforeRequest ==
  /\ scan.sent => (scan.env # <<>> \/ scan.local # <<>>)
  /\ (scan.pc = "idle" /\ scan.called /\ scan.env = <<>> /\ scan.local = <<>>)
       => /\ ~scan.sent
          /\ scan.analysis.threw
          /\ scan.caught
  /\ (scan.pc = "idle" /\ scan.caught /\ ~form.isScanning)
       => ~form.scanFeedback.shown
  /\ (scan.pc = "idle" /\ scan.sent /\ scan.response = "empty")
       => /\ ~scan.analysis.threw
          /\ ~scan.caught
          /\ AllFourNull(scan.analysis.result)

\* analyzeImage was called with no key at hand after the key was removed in
\* Settings: nothing was sent and the scan ended in the catch.
C29_Witness ==
  /\ scan.pc = "idle" /\ scan.called /\ ~scan.sent
  /\ scan.env = <<>> /\ scan.local = <<>>
  /\ scan.caught /\ ~form.isScanning

----------------------------------------------------------------------------
(* Properties of the key gate (checked under SpecAccess and SpecAccessFair) *)

\* The main screen is shown and no key check is in flight.
Unlocked == access.mounted /\ MainScreen(access) /\ InFlight(access) = {}

\* C27: whenever the main screen is unlocked, the scan service can obtain a
\* key: the environment or localStorage holds one; after any sequence of key
\* checks, key selection in AI Studio, manual key entry, and saving or
\* removing the key in Settings.
C27_UnlockedHasKey ==
  Unlocked => (access.env # <<>> \/ access.local # <<>>)

\* A key source existed when the last check completed.
SourceAtLastCompletion ==
  \/ access.last.studio = "selected"
  \/ access.last.env # <<>>
  \/ access.last.local # <<>>

\* A step in which a key check completes.
CheckCompletes ==
  \E id \in DOMAIN access.checks :
    access.checks[id] \in {"delay", "query"} /\ access'.checks[id] = "done"

\* C28: every key check that starts completes, also when the query of AI
\* Studio fails, and isCheckingKey is false when it completes; when no check
\* is in flight any more, checks having overlapped or not, isKeySet tells
\* whether a key source existed when the last check completed.
C28_ChecksComplete ==
  /\ \A id \in 1..MaxChecks :
        (access.checks[id] \in {"delay", "query"}) ~> (access.checks[id] = "done")
  /\ [][CheckCompletes => ~access'.isCheckingKey]_vars
  /\ []((access.last.done /\ InFlight(access) = {})
          => /\ ~access.isCheckingKey
             /\ access.isKeySet = SourceAtLastCompletion)

\* Two checks overlapped, the one started first completed last, after a
\* manual key was stored: the main screen is shown.
C28_Witness ==
  /\ access.checks = [id \in 1..MaxChecks |-> "done"]
  /\ access.last.done /\ access.last.id = 2
  /\ access.last.local = TypedKey /\ access.last.env = <<>>
  /\ access.isKeySet /\ ~access.isCheckingKey

====
